---- MODULE Spec2Model ----
(***************************************************************************)
(* A model of the collector framework of dwellir-harvester (the            *)
(* blockchain_collector package): the probes of each collector, the        *)
(* network-name mapper, the three-way outcome classification, the          *)
(* registry and the envelope builder run_collector.                        *)
(*                                                                         *)
(* Conventions.  A Python Optional is a tuple: None is <<>> and a value v  *)
(* is <<v>>.  A text that the code parses (eth_chainId, net_version, a     *)
(* collector name that gets sorted) is a sequence of one-character         *)
(* strings; a text the code only copies is a TLA+ string.  A dict is a     *)
(* function on its keys; the empty dict is the empty function.             *)
(***************************************************************************)
EXTENDS Integers, Sequences, FiniteSets, TLC

VARIABLES
    pc,        \* "idle" before the call, "done" after it
    request,   \* the arguments of the call
    world,     \* what the node, the binary and the clock answered during the call
    outcome,   \* what collect() returned or raised
    result,    \* what the caller got: an envelope or a raised exception
    log,       \* the calls that run_collector made, in order
    call,      \* a call of a pure helper: its arguments and its return value
    threads,   \* the threads of a daemon or the steps of one collect(): where each is
    shared     \* what the threads of a daemon share: the lock, the snapshot, the file

vars == <<pc, request, world, outcome, result, log, call, threads, shared>>

\* the variables of one call, and those of a daemon
call_vars == <<pc, request, world, outcome, result, log, call>>
daemon_vars == <<threads, shared>>

----------------------------------------------------------------------------
(* Bounds of the model *)

\* unmapped chain ids 0..MaxOtherChainId are probed besides the mapped ones
MaxOtherChainId == 3
\* the clock reads 1..MaxTime
MaxTime == 1

----------------------------------------------------------------------------
(* Python values *)

None == <<>>
Some(v) == <<v>>
Val(o) == o[1]

EmptyDict == [k \in {} |-> 0]

\* the merge in which a key that d has keeps the value of d
Update_first_wins(d, e) ==
    [k \in DOMAIN d \cup DOMAIN e |-> IF k \in DOMAIN d THEN d[k] ELSE e[k]]

\* dict.update
Update(d, e) == [k \in DOMAIN d \cup DOMAIN e |-> IF k \in DOMAIN e THEN e[k] ELSE d[k]]

\* "".join(chars): a text as one string
RECURSIVE Join(_)
Join(s) == IF s = <<>> THEN "" ELSE Head(s) \o Join(Tail(s))

\* sep.join(strings)
RECURSIVE JoinWith(_, _)
JoinWith(sep, s) ==
    IF s = <<>> THEN ""
    ELSE IF Len(s) = 1 THEN s[1]
    ELSE s[1] \o sep \o JoinWith(sep, Tail(s))

DigitVal(c) ==
    CASE c = "0" -> 0 [] c = "1" -> 1 [] c = "2" -> 2 [] c = "3" -> 3
      [] c = "4" -> 4 [] c = "5" -> 5 [] c = "6" -> 6 [] c = "7" -> 7
      [] c = "8" -> 8 [] c = "9" -> 9
      [] c \in {"a", "A"} -> 10 [] c \in {"b", "B"} -> 11 [] c \in {"c", "C"} -> 12
      [] c \in {"d", "D"} -> 13 [] c \in {"e", "E"} -> 14 [] c \in {"f", "F"} -> 15
      [] OTHER -> 99

DigitChar(d) ==
    CASE d = 0 -> "0" [] d = 1 -> "1" [] d = 2 -> "2" [] d = 3 -> "3"
      [] d = 4 -> "4" [] d = 5 -> "5" [] d = 6 -> "6" [] d = 7 -> "7"
      [] d = 8 -> "8" [] d = 9 -> "9" [] d = 10 -> "a" [] d = 11 -> "b"
      [] d = 12 -> "c" [] d = 13 -> "d" [] d = 14 -> "e" [] d = 15 -> "f"

AllDigits(s, base) == Len(s) > 0 /\ \A i \in 1..Len(s) : DigitVal(s[i]) < base

RECURSIVE DigitsValue(_, _)
DigitsValue(s, base) ==
    IF s = <<>> THEN 0
    ELSE DigitsValue(SubSeq(s, 1, Len(s) - 1), base) * base + DigitVal(s[Len(s)])

\* the digits of a natural number, most significant first
RECURSIVE NatChars(_, _)
NatChars(n, base) ==
    IF n < base THEN <<DigitChar(n)>>
    ELSE Append(NatChars(n \div base, base), DigitChar(n % base))

\* str(n) of an int, as characters
IntChars(n) == IF n < 0 THEN <<"-">> \o NatChars(0 - n, 10) ELSE NatChars(n, 10)

\* hex(n) of a natural number, as characters: "0x..."
HexChars(n) == <<"0", "x">> \o NatChars(n, 16)

\* int(text): Some(value), or None where Python raises ValueError
PyInt(s) ==
    LET signed == Len(s) > 0 /\ s[1] \in {"-", "+"}
        body == IF signed THEN Tail(s) ELSE s
    IN  IF AllDigits(body, 10)
        THEN Some(IF signed /\ s[1] = "-" THEN 0 - DigitsValue(body, 10)
                  ELSE DigitsValue(body, 10))
        ELSE None

\* int(text) after the "0x" is dropped: the digits read in base 10
PyIntHexBase10(s) ==
    LET prefixed == Len(s) >= 2 /\ s[1] = "0" /\ s[2] \in {"x", "X"}
        body == IF prefixed THEN SubSeq(s, 3, Len(s)) ELSE s
    IN  IF AllDigits(body, 10) THEN Some(DigitsValue(body, 10)) ELSE None

\* int(text, 16): Some(value), or None where Python raises ValueError
PyIntHex(s) ==
    LET prefixed == Len(s) >= 2 /\ s[1] = "0" /\ s[2] \in {"x", "X"}
        body == IF prefixed THEN SubSeq(s, 3, Len(s)) ELSE s
    IN  IF AllDigits(body, 16) THEN Some(DigitsValue(body, 16)) ELSE None

----------------------------------------------------------------------------
(* The network-name mapper *)

mapping == (1 :> "mainnet") @@ (11155111 :> "sepolia") @@ (17000 :> "holesky") @@ (5 :> "goerli")

\* the fallback without the parse: the raw string
map_net_version_raw(net_version, cid) == Join(net_version)

\* the fallback of _map_network_name on a truthy net_version: cid is what
\* int(net_version) gives
map_net_version(net_version, cid) ==
    IF cid # None
    THEN IF Val(cid) \in DOMAIN mapping
         THEN mapping[Val(cid)]
         ELSE "network-" \o Join(IntChars(Val(cid)))
    ELSE Join(net_version)

\* the mapper with net_version consulted ahead of the chain id
map_network_name_version_first(chain_id, net_version) ==
    IF net_version # None /\ Val(net_version) # <<>>
    THEN map_net_version(Val(net_version), PyInt(Val(net_version)))
    ELSE IF chain_id # None /\ Val(chain_id) \in DOMAIN mapping
    THEN mapping[Val(chain_id)]
    ELSE "unknown"

\* the mapper with a label synthesized from the chain id itself
map_network_name_from_chain_id(chain_id, net_version) ==
    IF chain_id # None /\ Val(chain_id) \in DOMAIN mapping
    THEN mapping[Val(chain_id)]
    ELSE IF net_version # None /\ Val(net_version) # <<>>
    THEN map_net_version(Val(net_version), PyInt(Val(net_version)))
    ELSE IF chain_id # None
    THEN "network-" \o Join(IntChars(Val(chain_id)))
    ELSE "unknown"

\* _map_network_name(chain_id, net_version): chain_id an Optional int,
\* net_version an Optional text
map_network_name(chain_id, net_version) ==
    IF chain_id # None /\ Val(chain_id) \in DOMAIN mapping
    THEN mapping[Val(chain_id)]
    ELSE IF net_version # None /\ Val(net_version) # <<>>
    THEN map_net_version(Val(net_version), PyInt(Val(net_version)))
    ELSE "unknown"

----------------------------------------------------------------------------
(* JSON-RPC probes.  A response is [kind, result]: kind "timeout"           *)
(* (socket.timeout), "urlerror" (URLError), "malformed" (any other          *)
(* exception: a body that is not JSON, not an object), "rpcerror" (a body   *)
(* with an "error" member) or "result" (a body without one, result being    *)
(* the Optional value of its "result" member: None when null or absent).    *)

\* the default of RETH_RPC_URL
DEFAULT_RPC == "http://127.0.0.1:8545"

\* _jsonrpc(url, method): the pair (value, error)
jsonrpc(url, method, resp) ==
    CASE resp.kind = "result" ->
            [val |-> resp.result, err |-> None]
      [] resp.kind = "rpcerror" ->
            [val |-> None, err |-> Some("rpc " \o method \o " error: method not found")]
      [] resp.kind = "timeout" ->
            [val |-> None,
             err |-> Some("rpc " \o method \o " timeout after 2.5s (url=" \o url \o ")")]
      [] resp.kind = "urlerror" ->
            [val |-> None,
             err |-> Some("rpc " \o method \o " connection error (url=" \o url
                          \o "): [Errno 111] Connection refused")]
      [] OTHER ->
            [val |-> None,
             err |-> Some("rpc " \o method \o " unexpected error (url=" \o url
                          \o "): Expecting value")]


\* err or default, for an Optional error string
OrElse(err, default) == IF err # None /\ Val(err) # "" THEN Val(err) ELSE default

\* bool(x) of an Optional string
Truthy(x) == x # None /\ Val(x) # ""

\* if value is None: messages.append(err or default), for a probe's pair
Unavailable(probe, default) ==
    IF probe.val = None THEN <<OrElse(probe.err, default)>> ELSE <<>>

\* the try block of _get_chain_id: res the result, parsed what int(res, 16) gives
chain_id_parsed(res, parsed) ==
    IF parsed # None THEN [val |-> parsed, err |-> None]
    ELSE [val |-> None,
          err |-> Some("rpc eth_chainId parse error for '" \o Join(res)
                       \o "': invalid literal for int() with base 16")]

\* _get_chain_id, for the pair r of the call
chain_id_of(r) ==
    IF r.val = None THEN [val |-> None, err |-> r.err]
    ELSE chain_id_parsed(Val(r.val), PyIntHex(Val(r.val)))

get_client_version_from_rpc(url, rpc) == jsonrpc(url, "web3_clientVersion", rpc.web3_clientVersion)
get_chain_id(url, rpc) == chain_id_of(jsonrpc(url, "eth_chainId", rpc.eth_chainId))
get_net_version(url, rpc) == jsonrpc(url, "net_version", rpc.net_version)

----------------------------------------------------------------------------
(* What collect() does: a normal return of a CollectResult, or a raise.    *)

CollectResult(blockchain, workload) == [blockchain |-> blockchain, workload |-> workload]

Return(res) == [kind |-> "return", res |-> res]

\* raise CollectorPartialError(messages or ["Partial data only."], partial)
RaisePartial(messages, partial) ==
    [kind |-> "partial",
     messages |-> IF messages # <<>> THEN messages ELSE <<"Partial data only.">>,
     partial |-> partial]

\* raise exc(arg): run_collector keeps repr(e)
Raise(exc, arg) == [kind |-> "raise", exc |-> exc, repr |-> exc \o "('" \o arg \o "')"]

\* raise CollectorFailedError("; ".join(messages) or default)
RaiseFailed(joined, default) ==
    Raise("CollectorFailedError", IF joined # "" THEN joined ELSE default)

\* the decision with the two checks in the other order
DecideCompletenessFirst(have_any_info, complete, failed, partial, success) ==
    IF ~complete THEN partial
    ELSE IF ~have_any_info THEN failed
    ELSE success

\* the status decision the collectors share: "any info" first, completeness second
Decide(have_any_info, complete, failed, partial, success) ==
    IF ~have_any_info THEN failed
    ELSE IF ~complete THEN partial
    ELSE success

----------------------------------------------------------------------------
(* The EVM family.  The CLI probe answers [kind, lines]: kind "notfound"    *)
(* (no executable), "failed" (non-zero exit) or "output", lines being the   *)
(* lines of the stripped standard output.  A collector runs in stages: the  *)
(* probes, the merge of what they gave, the decision.                       *)

RETH_COLLECTOR_VERSION == "0.1.2"

\* the payload with the CLI version ahead of the RPC one
evm_workload_cli_first(client_name, client_version_rpc, client_version_cli, rpc_url) ==
    [client_name |-> client_name,
     client_version |->
        IF Truthy(client_version_cli) THEN Val(client_version_cli)
        ELSE IF Truthy(client_version_rpc) THEN Val(client_version_rpc)
        ELSE "unknown",
     rpc_url |-> rpc_url]

\* the payload of an EVM collector
evm_workload(client_name, client_version_rpc, client_version_cli, rpc_url) ==
    [client_name |-> client_name,
     client_version |->
        IF Truthy(client_version_rpc) THEN Val(client_version_rpc)
        ELSE IF Truthy(client_version_cli) THEN Val(client_version_cli)
        ELSE "unknown",
     rpc_url |-> rpc_url]

evm_blockchain(network_name, chain_id) ==
    [blockchain_ecosystem |-> "Ethereum",
     blockchain_network_name |-> network_name,
     chain_id |-> IF chain_id # None THEN Val(chain_id) ELSE -1]

evm_have_any_info(client_version_rpc, client_version_cli, chain_id, net_version) ==
    \/ Truthy(client_version_rpc)
    \/ Truthy(client_version_cli)
    \/ chain_id # None
    \/ net_version # None

\* the messages a partial EVM outcome adds
evm_missing(workload, chain_id, network_name) ==
    (IF workload.client_version = "unknown"
     THEN <<"Missing client_version (both RPC and CLI failed).">> ELSE <<>>)
    \o (IF chain_id = None THEN <<"Missing chain_id.">> ELSE <<>>)
    \o (IF network_name = "unknown"
        THEN <<"Unable to determine known network name.">> ELSE <<>>)

\* the CLI probe of collect_reth: the version and the messages
reth_cli(cli) ==
    CASE cli.kind = "notfound" ->
            [val |-> None,
             messages |-> <<"reth binary not found (set RETH_BIN or install reth)">>]
      [] cli.kind = "failed" ->
            [val |-> None,
             messages |-> <<"/usr/bin/reth --version failed: CalledProcessError(1, ['/usr/bin/reth', '--version'])">>]
      [] cli.lines = <<>> ->
            [val |-> None, messages |-> <<"reth --version returned no output">>]
      [] OTHER ->
            [val |-> Some(cli.lines[1]), messages |-> <<>>]

\* the decision of collect_reth
reth_decide(messages, workload, blockchain, chain_id, network_name, have_any_info) ==
    Decide(have_any_info,
           workload.client_version # "unknown" /\ chain_id # None /\ network_name # "unknown",
           RaiseFailed(JoinWith("; ", messages), "no RPC or CLI info"),
           RaisePartial(messages \o evm_missing(workload, chain_id, network_name),
                        Some(CollectResult(blockchain, workload))),
           Return(CollectResult(blockchain, workload)))

\* the merge of collect_reth, for the pairs of the probes
reth_merge(client_name, rpc_url, cli, cv, cid, nv, network_name) ==
    reth_decide(cli.messages
                \o Unavailable(cv, "RPC web3_clientVersion unavailable")
                \o Unavailable(cid, "RPC eth_chainId unavailable")
                \o Unavailable(nv, "RPC net_version unavailable"),
                evm_workload(client_name, cv.val, cli.val, rpc_url),
                evm_blockchain(network_name, cid.val),
                cid.val,
                network_name,
                evm_have_any_info(cv.val, cli.val, cid.val, nv.val))

reth_probed(client_name, rpc_url, cli, cv, cid, nv) ==
    reth_merge(client_name, rpc_url, cli, cv, cid, nv, map_network_name(cid.val, nv.val))

\* collect_reth(client_name) of _reth_common.py
collect_reth(client_name, w) ==
    reth_probed(client_name, w.rpc_url, reth_cli(w.cli),
                get_client_version_from_rpc(w.rpc_url, w.rpc),
                get_chain_id(w.rpc_url, w.rpc),
                get_net_version(w.rpc_url, w.rpc))

\* the CLI probe of RethCollector.collect: /snap/bin/reth, and [0] of the lines
RethCollector_cli(cli) ==
    CASE cli.kind = "notfound" ->
            [val |-> None,
             messages |-> <<"Could not run 'reth --version': FileNotFoundError(2, 'No such file or directory')">>]
      [] cli.kind = "failed" ->
            [val |-> None,
             messages |-> <<"Could not run 'reth --version': CalledProcessError(1, ['/snap/bin/reth', '--version'])">>]
      [] cli.lines = <<>> ->
            [val |-> None,
             messages |-> <<"Could not run 'reth --version': IndexError('list index out of range')">>]
      [] OTHER ->
            [val |-> Some(cli.lines[1]), messages |-> <<>>]

\* the decision of RethCollector.collect: the failed branch adds a list to a
\* str, which raises TypeError; the partial branch passes no payload
RethCollector_decide(messages, workload, blockchain, chain_id, network_name, have_any_info) ==
    Decide(have_any_info,
           workload.client_version # "unknown" /\ chain_id # None /\ network_name # "unknown",
           [kind |-> "raise", exc |-> "TypeError",
            repr |-> "TypeError('can only concatenate str (not \"list\") to str')"],
           RaisePartial(messages \o evm_missing(workload, chain_id, network_name), None),
           Return(CollectResult(blockchain, workload)))

RethCollector_merge(rpc_url, cli, cv, cid, nv, network_name) ==
    RethCollector_decide(cli.messages
                         \o Unavailable(cv, "RPC web3_clientVersion unavailable")
                         \o Unavailable(cid, "RPC eth_chainId unavailable")
                         \o Unavailable(nv, "RPC net_version unavailable"),
                         evm_workload("reth", cv.val, cli.val, rpc_url),
                         evm_blockchain(network_name, cid.val),
                         cid.val,
                         network_name,
                         evm_have_any_info(cv.val, cli.val, cid.val, nv.val))

RethCollector_probed(rpc_url, cli, cv, cid, nv) ==
    RethCollector_merge(rpc_url, cli, cv, cid, nv, map_network_name(cid.val, nv.val))

\* RethCollector.collect of reth.py: its own copy of the probes and of the decision
RethCollector_collect(w) ==
    RethCollector_probed(w.rpc_url, RethCollector_cli(w.cli),
                         get_client_version_from_rpc(w.rpc_url, w.rpc),
                         get_chain_id(w.rpc_url, w.rpc),
                         get_net_version(w.rpc_url, w.rpc))

----------------------------------------------------------------------------
(* The Substrate family.  The results of the node are JSON strings, which  *)
(* str() leaves as they are.                                               *)

SUBSTRATE_COLLECTOR_VERSION == "0.1.0"

\* the default of SUBSTRATE_RPC_URL and of POLKADOT_RPC_URL
SUBSTRATE_DEFAULT_RPC == "http://127.0.0.1:9933"

\* _get_system_version, _get_system_name, _get_system_chain, _get_genesis_hash
get_system_version(url, rpc) == jsonrpc(url, "system_version", rpc.system_version)
get_system_name(url, rpc) == jsonrpc(url, "system_name", rpc.system_name)
get_system_chain(url, rpc) == jsonrpc(url, "system_chain", rpc.system_chain)
get_genesis_hash(url, rpc) == jsonrpc(url, "chain_getBlockHash", rpc.chain_getBlockHash)

substrate_workload(client_name, system_version, rpc_url) ==
    [client_name |-> client_name,
     client_version |-> IF Truthy(system_version) THEN Val(system_version) ELSE "unknown",
     rpc_url |-> rpc_url]

\* chain_id is set only when there is a genesis hash
substrate_blockchain(system_chain, genesis_hash) ==
    Update([blockchain_ecosystem |-> "Polkadot",
            blockchain_network_name |->
                IF Truthy(system_chain) THEN Val(system_chain) ELSE "unknown"],
           IF Truthy(genesis_hash) THEN [chain_id |-> Val(genesis_hash)] ELSE EmptyDict)

\* the messages a partial outcome of collect_substrate adds
substrate_missing(system_version, client_name, system_chain) ==
    (IF ~Truthy(system_version)
     THEN <<"Missing client_version (RPC system_version failed).">> ELSE <<>>)
    \o (IF client_name = ""
        THEN <<"Missing client_name (RPC system_name failed and no override provided).">>
        ELSE <<>>)
    \o (IF ~Truthy(system_chain)
        THEN <<"Missing blockchain_network_name (RPC system_chain failed).">> ELSE <<>>)

\* the decision of collect_substrate: client_name is a string here, "" when
\* it could not be derived
substrate_decide(messages, client_name, rpc_url, system_version, system_chain, genesis_hash) ==
    Decide(Truthy(system_version) \/ Truthy(system_chain) \/ Truthy(genesis_hash)
               \/ client_name # "",
           Truthy(system_version) /\ client_name # "" /\ Truthy(system_chain),
           RaiseFailed(JoinWith("; ", messages), "no RPC info from node"),
           RaisePartial(messages \o substrate_missing(system_version, client_name, system_chain),
                        Some(CollectResult(substrate_blockchain(system_chain, genesis_hash),
                                           substrate_workload(client_name, system_version, rpc_url)))),
           Return(CollectResult(substrate_blockchain(system_chain, genesis_hash),
                                substrate_workload(client_name, system_version, rpc_url))))

\* client_name from system_name, asked only when the wrapper supplies none:
\* sys is the pair of that call
substrate_named(messages, client_name, sys, rpc_url, ver, chain, gen) ==
    IF Truthy(client_name)
    THEN substrate_decide(messages, Val(client_name), rpc_url, ver.val, chain.val, gen.val)
    ELSE IF sys.val = None
    THEN substrate_decide(messages \o <<OrElse(sys.err, "RPC system_name unavailable")>>,
                          "", rpc_url, ver.val, chain.val, gen.val)
    ELSE substrate_decide(messages, Val(sys.val), rpc_url, ver.val, chain.val, gen.val)

substrate_probed(client_name, sys, rpc_url, ver, chain, gen) ==
    substrate_named(Unavailable(ver, "RPC system_version unavailable")
                    \o Unavailable(chain, "RPC system_chain unavailable")
                    \o Unavailable(gen, "RPC chain_getBlockHash(0) unavailable"),
                    client_name, sys, rpc_url, ver, chain, gen)

\* collect_substrate(client_name) of _substrate_common.py: client_name an
\* Optional string, None when the wrapper supplies none
collect_substrate(client_name, w) ==
    substrate_probed(client_name, get_system_name(w.rpc_url, w.rpc), w.rpc_url,
                     get_system_version(w.rpc_url, w.rpc),
                     get_system_chain(w.rpc_url, w.rpc),
                     get_genesis_hash(w.rpc_url, w.rpc))

\* the messages a partial outcome of PolkadotCollector.collect adds
polkadot_missing(system_version, system_chain) ==
    (IF ~Truthy(system_version)
     THEN <<"Missing client_version (RPC system_version failed).">> ELSE <<>>)
    \o (IF ~Truthy(system_chain)
        THEN <<"Missing blockchain_network_name (RPC system_chain failed).">> ELSE <<>>)

\* the decision of PolkadotCollector.collect
polkadot_decide(messages, rpc_url, system_version, system_chain, genesis_hash) ==
    Decide(Truthy(system_version) \/ Truthy(system_chain) \/ Truthy(genesis_hash),
           Truthy(system_version) /\ Truthy(system_chain),
           RaiseFailed(JoinWith("; ", messages), "no RPC info from node"),
           RaisePartial(messages \o polkadot_missing(system_version, system_chain),
                        Some(CollectResult(substrate_blockchain(system_chain, genesis_hash),
                                           substrate_workload("polkadot", system_version, rpc_url)))),
           Return(CollectResult(substrate_blockchain(system_chain, genesis_hash),
                                substrate_workload("polkadot", system_version, rpc_url))))

polkadot_probed(rpc_url, ver, chain, gen) ==
    polkadot_decide(Unavailable(ver, "RPC system_version unavailable")
                    \o Unavailable(chain, "RPC system_chain unavailable")
                    \o Unavailable(gen, "RPC chain_getBlockHash(0) unavailable"),
                    rpc_url, ver.val, chain.val, gen.val)

\* PolkadotCollector.collect of polkadot.py
PolkadotCollector_collect(w) ==
    polkadot_probed(w.rpc_url,
                    get_system_version(w.rpc_url, w.rpc),
                    get_system_chain(w.rpc_url, w.rpc),
                    get_genesis_hash(w.rpc_url, w.rpc))

----------------------------------------------------------------------------
(* Aptos.  A GET answers [kind, headers, body]: kind "timeout",            *)
(* "httperror", "urlerror" or "ok"; headers is the dict of the lowercased  *)
(* response headers and body the Optional JSON object.  The chain id of a  *)
(* header or of a body is a text.                                          *)

APTOS_COLLECTOR_VERSION == "0.1.0"

\* the default of APTOS_RPC_URL
APTOS_DEFAULT_RPC == "http://127.0.0.1:8080"

\* _http_get(url): (body, headers, error)
http_get(url, resp) ==
    CASE resp.kind = "ok" ->
            [body |-> resp.body, headers |-> resp.headers, err |-> None]
      [] resp.kind = "timeout" ->
            [body |-> None, headers |-> EmptyDict,
             err |-> Some("GET timeout after 2.5s (url=" \o url \o ")")]
      [] resp.kind = "httperror" ->
            [body |-> None, headers |-> EmptyDict,
             err |-> Some("HTTP 404 for " \o url \o ": Not Found")]
      [] OTHER ->
            [body |-> None, headers |-> EmptyDict,
             err |-> Some("Connection error (url=" \o url \o "): [Errno 111] Connection refused")]

\* the candidates with the /v1 paths ahead of the others
candidates_v1_first(base) == <<base \o "/v1", base \o "/v1/", base, base \o "/">>

\* the candidates of _probe_ledger, for a base without a trailing slash
candidates(base) == <<base, base \o "/", base \o "/v1", base \o "/v1/">>

\* the chain id is in the headers or in the body
HasChainId(r) ==
    \/ "x-aptos-chain-id" \in DOMAIN r.headers
    \/ (r.body # None /\ "chain_id" \in DOMAIN Val(r.body))

\* a turn that accepts every response that is no error, chain id or not
probe_step_accepts_any(u, r, messages, requests) ==
    IF Truthy(r.err)
    THEN [kind |-> "continue", messages |-> Append(messages, Val(r.err)),
          requests |-> Append(requests, u)]
    ELSE [kind |-> "return", body |-> r.body, headers |-> r.headers, messages |-> <<>>,
          requests |-> Append(requests, u)]

\* one turn of the loop of _probe_ledger: candidate u answered r; "return"
\* ends the loop, "continue" goes on with the message appended; requests are
\* the URLs asked so far
probe_step(u, r, messages, requests) ==
    IF Truthy(r.err)
    THEN [kind |-> "continue", messages |-> Append(messages, Val(r.err)),
          requests |-> Append(requests, u)]
    ELSE IF HasChainId(r)
    THEN [kind |-> "return", body |-> r.body, headers |-> r.headers, messages |-> <<>>,
          requests |-> Append(requests, u)]
    ELSE [kind |-> "continue",
          messages |-> Append(messages, "No ledger info at " \o u
                                        \o " (no chain id in headers/body)"),
          requests |-> Append(requests, u)]

\* the loop of _probe_ledger over the candidates us, step being the last turn
RECURSIVE probe_loop(_, _, _)
probe_loop(us, http, step) ==
    IF step.kind = "return" THEN step
    ELSE IF us = <<>> THEN [kind |-> "return", body |-> None, headers |-> EmptyDict,
                            messages |-> step.messages, requests |-> step.requests]
    ELSE probe_loop(Tail(us), Tail(http),
                    probe_step(Head(us), http_get(Head(us), Head(http)),
                               step.messages, step.requests))

\* _probe_ledger(rest_base)
probe_ledger(base, http) ==
    probe_loop(candidates(base), http,
               [kind |-> "continue", messages |-> <<>>, requests |-> <<>>])

\* _parse_chain_id(body, headers): an Optional int; a header that is no
\* number gives way to the body
parse_chain_id(body, headers) ==
    IF "x-aptos-chain-id" \in DOMAIN headers /\ PyInt(headers["x-aptos-chain-id"]) # None
    THEN PyInt(headers["x-aptos-chain-id"])
    ELSE IF body # None /\ "chain_id" \in DOMAIN Val(body)
    THEN PyInt(Val(body)["chain_id"])
    ELSE None

\* the first truthy value of d under the keys ks, an Optional string
RECURSIVE FirstTruthy(_, _)
FirstTruthy(d, ks) ==
    IF ks = <<>> THEN None
    ELSE IF Head(ks) \in DOMAIN d /\ d[Head(ks)] # "" THEN Some(d[Head(ks)])
    ELSE FirstTruthy(d, Tail(ks))

\* _parse_client_version(body, headers): an Optional string
parse_client_version(body, headers) ==
    IF FirstTruthy(headers, <<"x-aptos-node-version", "x-aptos-git-hash">>) # None
    THEN FirstTruthy(headers, <<"x-aptos-node-version", "x-aptos-git-hash">>)
    ELSE IF body # None /\ DOMAIN Val(body) # {}
    THEN FirstTruthy(Val(body), <<"node_version", "git_hash">>)
    ELSE None

\* the network name with mainnet the only one known
get_network_name_mainnet_only(chain_id) ==
    IF chain_id # None /\ Val(chain_id) = 1 THEN Some("mainnet") ELSE None

\* _get_network_name(chain_id): an Optional string
get_network_name(chain_id) ==
    IF chain_id # None /\ Val(chain_id) = 1 THEN Some("mainnet")
    ELSE IF chain_id # None /\ Val(chain_id) = 2 THEN Some("testnet")
    ELSE None

aptos_blockchain(network_name, chain_id) ==
    Update([blockchain_ecosystem |-> "Aptos", blockchain_network_name |-> network_name],
           IF chain_id # None THEN [chain_id |-> Val(chain_id)] ELSE EmptyDict)

aptos_workload(client_version, rpc_url) ==
    [client_name |-> "aptos-node", client_version |-> client_version, rpc_url |-> rpc_url]

\* the decision of AptosCollector.collect: workload_complete is True
aptos_decide(messages, rpc_url, chain_id, client_version, network_name) ==
    Decide(chain_id # None \/ client_version # "unknown" \/ network_name # "unknown",
           TRUE /\ network_name # "unknown",
           RaiseFailed(JoinWith("; ", messages), "no REST info from node"),
           RaisePartial(messages,
                        Some(CollectResult(aptos_blockchain(network_name, chain_id),
                                           aptos_workload(client_version, rpc_url)))),
           Return(CollectResult(aptos_blockchain(network_name, chain_id),
                                aptos_workload(client_version, rpc_url))))

\* the messages of AptosCollector.collect, for what was parsed
aptos_parsed(errs, rpc_url, chain_id, client_version, network_name) ==
    aptos_decide(errs
                 \o (IF chain_id = None
                     THEN <<"Unable to determine chain_id from REST headers/body.">> ELSE <<>>)
                 \o (IF client_version = "unknown"
                     THEN <<"Client version not exposed (no node_version/git_hash headers).">>
                     ELSE <<>>)
                 \o (IF network_name = "unknown"
                     THEN <<"Unable to determine network name.">> ELSE <<>>),
                 rpc_url, chain_id, client_version, network_name)

\* x or "unknown", for an Optional string
OrUnknown(x) == IF Truthy(x) THEN Val(x) ELSE "unknown"

aptos_probed(rpc_url, probe, chain_id) ==
    aptos_parsed(probe.messages, rpc_url, chain_id,
                 OrUnknown(parse_client_version(probe.body, probe.headers)),
                 OrUnknown(get_network_name(chain_id)))

aptos_ledger(rpc_url, probe) ==
    aptos_probed(rpc_url, probe, parse_chain_id(probe.body, probe.headers))

\* AptosCollector.collect
AptosCollector_collect(w) == aptos_ledger(w.rpc_url, probe_ledger(w.rpc_url, w.http))

----------------------------------------------------------------------------
(* The collectors that probe a binary only, and the static one.            *)

\* DummychainCollector.collect: a line of the output is the sequence of its
\* words, which single spaces separate
DummychainCollector_collect(w) ==
    LET cli == w.cli
        blockchain ==
            [blockchain_ecosystem |-> "Dwellir",
             blockchain_network_name |-> "dummy-network",
             chain_id |-> -1]
        workload == [client_name |-> "dummychain", client_version |-> "unknown"]
        ran == cli.kind = "output"
        line == cli.lines[1]
        m_run ==
            CASE cli.kind = "notfound" ->
                    <<"dummychain --version failed: FileNotFoundError(2, 'No such file or directory')">>
              [] cli.kind = "failed" ->
                    <<"dummychain --version failed: CalledProcessError(1, ['/snap/bin/dummychain', '--version'])">>
              [] OTHER ->
                    (IF cli.lines = <<>> THEN <<"dummychain --version returned no output">>
                     ELSE <<>>)
                    \o <<"dummychain binary not found (install dummychain)">>
    IN  IF ~ran
        THEN \* client_version_cli is still "unknown"
             RaisePartial(m_run \o <<"dummychain binary not found (install dummychain snap)">>,
                          Some(CollectResult(blockchain, workload)))
        ELSE IF cli.lines = <<>>
        THEN \* client_version_cli is None: None.rsplit
             [kind |-> "raise", exc |-> "AttributeError",
              repr |-> "AttributeError(\"'NoneType' object has no attribute 'rsplit'\")"]
        ELSE IF Len(line) < 2
        THEN \* rsplit(" ", 1) of a line without a space has no element 1
             Raise("IndexError", "list index out of range")
        ELSE Return(CollectResult(blockchain,
                                  [client_name |-> "dummychain",
                                   client_version |-> line[Len(line)],
                                   notes |-> "Snap installed."]))

\* NullCollector.collect
NullCollector_collect ==
    Return(CollectResult([blockchain_ecosystem |-> "Unknown",
                          blockchain_network_name |-> "unknown",
                          chain_id |-> -1],
                         [client_name |-> "null",
                          client_version |-> "1.0.0",
                          notes |-> "static placeholder produced by NullCollector"]))

\* ExampleGethCollector.collect: a line of the output is a string
ExampleGethCollector_collect(w) ==
    LET cli == w.cli
    IN  IF cli.kind = "output" /\ cli.lines # <<>>
        THEN Return(CollectResult([blockchain_ecosystem |-> "Ethereum",
                                   blockchain_network_name |-> "mainnet",
                                   chain_id |-> 1],
                                  [client_name |-> "geth",
                                   client_version |-> cli.lines[1]]))
        ELSE \* CollectorFailedError of a list with one message
             [kind |-> "raise", exc |-> "CollectorFailedError",
              repr |-> "CollectorFailedError([\"Could not run 'geth version': "
                       \o (CASE cli.kind = "notfound" ->
                                    "[Errno 2] No such file or directory: 'geth'"
                             [] cli.kind = "failed" ->
                                    "Command '['geth', 'version']' returned non-zero exit status 1."
                             [] OTHER -> "list index out of range")
                       \o "\"])"]

----------------------------------------------------------------------------
(* The registry.  A collector class is [cls, NAME, chars, VERSION], chars  *)
(* being the characters of NAME.                                           *)

Class(cls, chars, version) ==
    [cls |-> cls, NAME |-> Join(chars), chars |-> chars, VERSION |-> version]

\* the base class, which the collector modules import
BaseCollector == Class("BaseCollector", <<"b", "a", "s", "e">>, "0.0.0")

RethCollector == Class("RethCollector", <<"r", "e", "t", "h">>, "0.1.1")
OpRethCollector == Class("OpRethCollector", <<"o", "p", "-", "r", "e", "t", "h">>, RETH_COLLECTOR_VERSION)
BeraRethCollector ==
    Class("BeraRethCollector", <<"b", "e", "r", "a", "-", "r", "e", "t", "h">>, RETH_COLLECTOR_VERSION)
SubstrateCollector ==
    Class("SubstrateCollector", <<"s", "u", "b", "s", "t", "r", "a", "t", "e">>, SUBSTRATE_COLLECTOR_VERSION)
AjunaCollector == Class("AjunaCollector", <<"a", "j", "u", "n", "a">>, SUBSTRATE_COLLECTOR_VERSION)
PolkadotCollector == Class("PolkadotCollector", <<"p", "o", "l", "k", "a", "d", "o", "t">>, "0.1.0")
AptosCollector == Class("AptosCollector", <<"a", "p", "t", "o", "s">>, APTOS_COLLECTOR_VERSION)
DummychainCollector ==
    Class("DummychainCollector", <<"d", "u", "m", "m", "y", "c", "h", "a", "i", "n">>, "0.0.0")
NullCollector == Class("NullCollector", <<"n", "u", "l", "l">>, "1.0.0")
ExampleGethCollector ==
    Class("ExampleGethCollector", <<"e", "x", "a", "m", "p", "l", "e", "_", "g", "e", "t", "h">>, "0.1.0")

\* the modules of the collectors package in the order pkgutil.iter_modules
\* yields them, each with the subclasses of BaseCollector that dir() finds in it
Modules ==
    << <<>>,                                     \* _reth_common
       <<>>,                                     \* _substrate_common
       <<AptosCollector, BaseCollector>>,        \* aptos
       <<BaseCollector, DummychainCollector>>,   \* dummychain
       <<BaseCollector, ExampleGethCollector>>,  \* example_geth
       <<BaseCollector, NullCollector>>,         \* null
       <<BaseCollector, PolkadotCollector>>,     \* polkadot
       <<BaseCollector, RethCollector>>,         \* reth
       <<BaseCollector, BeraRethCollector>>,     \* reth_bera
       <<BaseCollector, OpRethCollector>>,       \* reth_op
       <<BaseCollector, SubstrateCollector>>,    \* substrate
       <<AjunaCollector, BaseCollector>> >>      \* substrate_ajuna

\* the registration in which the class registered first keeps its name
RECURSIVE RegisterAll_first_wins(_, _)
RegisterAll_first_wins(m, classes) ==
    IF classes = <<>> THEN m
    ELSE IF Head(classes).cls = "BaseCollector" \/ Head(classes).NAME \in DOMAIN m
    THEN RegisterAll_first_wins(m, Tail(classes))
    ELSE RegisterAll_first_wins(Update(m, (Head(classes).NAME :> Head(classes))),
                                Tail(classes))

\* mapping[obj.NAME] = obj for each class of a module that is a subclass of
\* BaseCollector and is not BaseCollector
RECURSIVE RegisterAll(_, _)
RegisterAll(m, classes) ==
    IF classes = <<>> THEN m
    ELSE IF Head(classes).cls = "BaseCollector" THEN RegisterAll(m, Tail(classes))
    ELSE RegisterAll(Update(m, (Head(classes).NAME :> Head(classes))), Tail(classes))

RECURSIVE LoadModules(_, _)
LoadModules(m, modules) ==
    IF modules = <<>> THEN m
    ELSE LoadModules(RegisterAll(m, Head(modules)), Tail(modules))

\* load_collectors(): the dict from NAME to class
load_collectors == LoadModules(EmptyDict, Modules)

\* the characters of the names, in code point order
Alphabet ==
    <<"-", "_", "a", "b", "c", "d", "e", "f", "g", "h", "i", "j", "k", "l", "m",
      "n", "o", "p", "q", "r", "s", "t", "u", "v", "w", "x", "y", "z">>

Ord(c) == CHOOSE i \in 1..Len(Alphabet) : Alphabet[i] = c

\* a <= b for two texts, as Python compares strings
RECURSIVE TextLeq(_, _)
TextLeq(a, b) ==
    IF a = <<>> THEN TRUE
    ELSE IF b = <<>> THEN FALSE
    ELSE IF Head(a) # Head(b) THEN Ord(Head(a)) < Ord(Head(b))
    ELSE TextLeq(Tail(a), Tail(b))

\* sorted(texts), for a set of texts
RECURSIVE Sorted(_)
Sorted(S) ==
    IF S = {} THEN <<>>
    ELSE LET least == CHOOSE x \in S : \A y \in S : TextLeq(x, y)
         IN  <<least>> \o Sorted(S \ {least})

\* the strings of a sequence of texts
Strings(texts) == [i \in 1..Len(texts) |-> Join(texts[i])]

\* sorted(collectors.keys(), reverse=True)
sorted_keys_reversed(collectors) ==
    LET keys == Strings(Sorted({collectors[n].chars : n \in DOMAIN collectors}))
    IN  [i \in 1..Len(keys) |-> keys[Len(keys) + 1 - i]]

\* sorted(collectors.keys())
sorted_keys(collectors) == Strings(Sorted({collectors[n].chars : n \in DOMAIN collectors}))

\* collector.collect() of an instance of the class
collect(class, w) ==
    CASE class.cls = "RethCollector" -> RethCollector_collect(w)
      [] class.cls \in {"OpRethCollector", "BeraRethCollector"} -> collect_reth(class.NAME, w)
      [] class.cls = "SubstrateCollector" -> collect_substrate(None, w)
      [] class.cls = "AjunaCollector" -> collect_substrate(Some(class.NAME), w)
      [] class.cls = "PolkadotCollector" -> PolkadotCollector_collect(w)
      [] class.cls = "AptosCollector" -> AptosCollector_collect(w)
      [] class.cls = "DummychainCollector" -> DummychainCollector_collect(w)
      [] class.cls = "NullCollector" -> NullCollector_collect
      [] class.cls = "ExampleGethCollector" -> ExampleGethCollector_collect(w)

----------------------------------------------------------------------------
(* The envelope builder *)

\* now_iso_tz() when the clock reads t
now_iso_tz(t) == "2025-01-01T00:00:0" \o Join(IntChars(t)) \o "+00:00"

\* the status, the errors and the buckets that the try statement of
\* run_collector leaves for what collect() did
status_of(o) ==
    CASE o.kind = "return" -> "success"
      [] o.kind = "partial" -> "partial"
      [] OTHER -> "failed"

errors_of(o) ==
    CASE o.kind = "return" -> <<>>
      [] o.kind = "partial" -> o.messages
      [] OTHER -> <<o.repr>>

\* the buckets with the payload of a partial outcome dropped
res_of_no_payload(o) ==
    CASE o.kind = "return" -> o.res
      [] OTHER -> CollectResult(EmptyDict, EmptyDict)

res_of(o) ==
    CASE o.kind = "return" -> o.res
      [] o.kind = "partial" ->
            IF o.partial # None THEN Val(o.partial) ELSE CollectResult(EmptyDict, EmptyDict)
      [] OTHER -> CollectResult(EmptyDict, EmptyDict)

\* the output dict with last_successful_collect_at set whatever the status
build_output_always_stamped(CollectorCls, o, attempt_time, extra_metadata) ==
    LET stamped ==
            [collector_name |-> CollectorCls.NAME,
             collector_version |-> CollectorCls.VERSION,
             last_collect_attempt_at |-> attempt_time,
             last_collect_status |-> status_of(o),
             last_collect_errors |-> errors_of(o),
             last_successful_collect_at |-> attempt_time]
    IN  [metadata |-> IF extra_metadata # None /\ DOMAIN Val(extra_metadata) # {}
                      THEN Update(stamped, Val(extra_metadata))
                      ELSE stamped,
         blockchain |-> res_of(o).blockchain,
         workload |-> res_of(o).workload]

\* the output dict with the time of the attempt among the errors
build_output_timestamped_errors(CollectorCls, o, attempt_time, extra_metadata) ==
    LET metadata ==
            [collector_name |-> CollectorCls.NAME,
             collector_version |-> CollectorCls.VERSION,
             last_collect_attempt_at |-> attempt_time,
             last_collect_status |-> status_of(o),
             last_collect_errors |-> errors_of(o) \o <<"at " \o attempt_time>>]
        stamped ==
            IF status_of(o) = "success"
            THEN Update(metadata, [last_successful_collect_at |-> attempt_time])
            ELSE metadata
    IN  [metadata |-> IF extra_metadata # None /\ DOMAIN Val(extra_metadata) # {}
                      THEN Update(stamped, Val(extra_metadata))
                      ELSE stamped,
         blockchain |-> res_of(o).blockchain,
         workload |-> res_of(o).workload]

\* the output dict of run_collector, the extra metadata merged
build_output(CollectorCls, o, attempt_time, extra_metadata) ==
    LET status == status_of(o)
        metadata ==
            [collector_name |-> CollectorCls.NAME,
             collector_version |-> CollectorCls.VERSION,
             last_collect_attempt_at |-> attempt_time,
             last_collect_status |-> status,
             last_collect_errors |-> errors_of(o)]
        stamped ==
            IF status = "success"
            THEN Update(metadata, [last_successful_collect_at |-> attempt_time])
            ELSE metadata
        merged ==
            IF extra_metadata # None /\ DOMAIN Val(extra_metadata) # {}
            THEN Update(stamped, Val(extra_metadata))
            ELSE stamped
    IN  [metadata |-> merged,
         blockchain |-> res_of(o).blockchain,
         workload |-> res_of(o).workload]

\* the message of the KeyError for a name that is not registered
not_found(collector_name, collectors) ==
    "Collector '" \o collector_name \o "' not found. Available: "
    \o (IF DOMAIN collectors # {} THEN JoinWith(", ", sorted_keys(collectors)) ELSE "(none)")

\* run_collector validating whatever the status is
run_registered_validate_all(CollectorCls, validate, extra_metadata, w, o) ==
    [log |-> <<"load_collectors", "CollectorCls()", "now_iso_tz", "collect">>
             \o (IF validate THEN <<"validate_output">> ELSE <<>>),
     outcome |-> o,
     result |->
         IF validate /\ w.schema = "violation"
         THEN [kind |-> "raised", exc |-> "ValidationError",
               msg |-> "instance is not valid under the schema"]
         ELSE [kind |-> "envelope",
               output |-> build_output(CollectorCls, o, now_iso_tz(w.clock), extra_metadata)]]

\* run_collector from the construction of the collector on: o is what
\* collector.collect() did
run_registered(CollectorCls, validate, extra_metadata, w, o) ==
    [log |-> <<"load_collectors", "CollectorCls()", "now_iso_tz", "collect">>
             \o (IF validate /\ status_of(o) = "success" THEN <<"validate_output">> ELSE <<>>),
     outcome |-> o,
     result |->
         IF validate /\ status_of(o) = "success" /\ w.schema = "violation"
         THEN [kind |-> "raised", exc |-> "ValidationError",
               msg |-> "instance is not valid under the schema"]
         ELSE [kind |-> "envelope",
               output |-> build_output(CollectorCls, o, now_iso_tz(w.clock), extra_metadata)]]

\* run_collector(collector_name, schema_path, validate, extra_metadata) in the
\* world w: the calls it makes (log), what collect() did (outcome) and what
\* the caller gets (result)
run_collector(collector_name, validate, extra_metadata, w) ==
    IF collector_name \notin DOMAIN load_collectors
    THEN [log |-> <<"load_collectors">>,
          outcome |-> [kind |-> "none"],
          result |-> [kind |-> "raised", exc |-> "KeyError",
                      msg |-> not_found(collector_name, load_collectors)]]
    ELSE run_registered(load_collectors[collector_name], validate, extra_metadata, w,
                        collect(load_collectors[collector_name], w))

----------------------------------------------------------------------------
(* The inputs: what the caller passes and what the world answers *)

Times == 1..MaxTime

\* extra_metadata: none, a deployment tag, standard keys overwritten
ExtraMetadata ==
    {None,
     Some([deployment |-> "prod"]),
     Some([collector_name |-> "custom", last_collect_status |-> "overridden",
           last_successful_collect_at |-> "yesterday"])}

\* names that no collector has
UnregisteredNames == {"geth", "Reth", ""}

Failure(kind) == [kind |-> kind, result |-> None]
Result(v) == [kind |-> "result", result |-> v]

\* the ways a JSON-RPC call fails
RpcFailures == {Failure("urlerror"), Failure("rpcerror")}

\* a method that answers a string: null, the empty string or a value
StringResponses(v) == RpcFailures \cup {Result(None), Result(Some("")), Result(Some(v))}

ChainIds == DOMAIN mapping \cup 0..MaxOtherChainId

ChainIdResponses ==
    RpcFailures \cup {Result(None), Result(Some(<<"z", "z">>))}
    \cup {Result(Some(HexChars(c))) : c \in ChainIds}

NetVersionResponses ==
    RpcFailures \cup {Result(None), Result(Some(<<>>)), Result(Some(<<"d", "e", "v">>))}
    \cup {Result(Some(IntChars(c))) : c \in ChainIds}

\* the ways a --version run ends, for the lines of a non-empty output
CliOutcomes(lines) ==
    {[kind |-> "notfound", lines |-> <<>>],
     [kind |-> "failed", lines |-> <<>>],
     [kind |-> "output", lines |-> <<>>],
     [kind |-> "output", lines |-> lines]}

HttpFailure(kind) == [kind |-> kind, headers |-> EmptyDict, body |-> None]
HttpOk(headers, body) == [kind |-> "ok", headers |-> headers, body |-> body]

\* a candidate that _probe_ledger does not get to
Unrequested == HttpFailure("unrequested")

HttpResponses ==
    {HttpFailure("timeout"),
     HttpFailure("httperror"),
     HttpOk(EmptyDict, None),
     HttpOk(("x-aptos-node-version" :> "1.30.0"), None),
     HttpOk(("x-aptos-chain-id" :> <<"1">>) @@ ("x-aptos-node-version" :> "1.30.0"), None),
     HttpOk(("x-aptos-chain-id" :> <<"2">>), None),
     HttpOk(("x-aptos-chain-id" :> <<"4">>), None),
     HttpOk(("x-aptos-chain-id" :> <<"x">>), None),
     HttpOk(("x-aptos-chain-id" :> <<"x">>) @@ ("x-aptos-git-hash" :> "abc123"), None),
     HttpOk(EmptyDict, Some([chain_id |-> <<"2">>, git_hash |-> "abc123"]))}

\* the answers to the candidates in order: none after the one accepted
HttpWorlds ==
    {h \in [1..4 -> HttpResponses \cup {Unrequested}] :
        \A i \in 1..4 :
            h[i] = Unrequested <=>
                \E j \in 1..(i - 1) : h[j] # Unrequested /\ h[j].kind = "ok" /\ HasChainId(h[j])}

----------------------------------------------------------------------------
(* The state machine: one call of run_collector per process, as the CLI    *)
(* makes it.                                                               *)

NoCall == [fn |-> "none"]

Init ==
    /\ pc = "idle"
    /\ request = None
    /\ world = None
    /\ outcome = [kind |-> "none"]
    /\ result = [kind |-> "none"]
    /\ log = <<>>
    /\ call = NoCall
    /\ threads = <<>>
    /\ shared = <<>>

\* run_collector(name, validate = validate, extra_metadata = extra) in world w;
\* the schema verdict is part of the world only when it is read
Call(name, validate, extra, w) ==
    /\ pc = "idle"
    /\ \E r \in {run_collector(name, validate, extra, w)} :
           LET read == \E i \in 1..Len(r.log) : r.log[i] = "validate_output"
           IN  /\ (read \/ w.schema = "ok")
               /\ world' = [w EXCEPT !.schema = IF read THEN @ ELSE "unread"]
               /\ outcome' = r.outcome
               /\ result' = r.result
               /\ log' = r.log
    /\ pc' = "done"
    /\ request' = [collector_name |-> name, validate |-> validate, extra_metadata |-> extra]
    /\ UNCHANGED <<call, threads, shared>>

Verdicts == {"ok", "violation"}

RunEvm ==
    pc = "idle" /\
    \E name \in {RethCollector.NAME, OpRethCollector.NAME, BeraRethCollector.NAME},
       validate \in BOOLEAN, extra \in ExtraMetadata, t \in Times, schema \in Verdicts,
       cli \in CliOutcomes(<<"reth-cli 1.6.0">>),
       cv \in StringResponses("reth/v1.0.0"),
       cid \in ChainIdResponses,
       nv \in NetVersionResponses :
        Call(name, validate, extra,
             [clock |-> t, schema |-> schema, rpc_url |-> DEFAULT_RPC, cli |-> cli,
              rpc |-> [web3_clientVersion |-> cv, eth_chainId |-> cid, net_version |-> nv]])

\* system_name is asked only when the wrapper supplies no client name
RunSubstrate ==
    pc = "idle" /\
    \E name \in {SubstrateCollector.NAME, AjunaCollector.NAME, PolkadotCollector.NAME},
       validate \in BOOLEAN, extra \in ExtraMetadata, t \in Times, schema \in Verdicts,
       sv \in StringResponses("1.2.0-abc"),
       sc \in StringResponses("Kusama"),
       gh \in StringResponses("0xb0a8d4"),
       sn \in StringResponses("Parity Polkadot") \cup {Failure("unrequested")} :
        /\ (sn = Failure("unrequested")) <=> (name # SubstrateCollector.NAME)
        /\ Call(name, validate, extra,
                [clock |-> t, schema |-> schema, rpc_url |-> SUBSTRATE_DEFAULT_RPC,
                 rpc |-> [system_version |-> sv, system_chain |-> sc,
                          chain_getBlockHash |-> gh, system_name |-> sn]])

RunAptos ==
    pc = "idle" /\
    \E validate \in BOOLEAN, extra \in ExtraMetadata, t \in Times, schema \in Verdicts,
       http \in HttpWorlds :
        Call(AptosCollector.NAME, validate, extra,
             [clock |-> t, schema |-> schema, rpc_url |-> APTOS_DEFAULT_RPC, http |-> http])

RunDummychain ==
    pc = "idle" /\
    \E validate \in BOOLEAN, extra \in ExtraMetadata, t \in Times, schema \in Verdicts,
       cli \in CliOutcomes(<< <<"dummychain", "1.2.3">> >>)
               \cup {[kind |-> "output", lines |-> << <<"1.2.3">> >>]} :
        Call(DummychainCollector.NAME, validate, extra,
             [clock |-> t, schema |-> schema, cli |-> cli])

RunExampleGeth ==
    pc = "idle" /\
    \E validate \in BOOLEAN, extra \in ExtraMetadata, t \in Times, schema \in Verdicts,
       cli \in CliOutcomes(<<"Geth Version: 1.13.0">>) :
        Call(ExampleGethCollector.NAME, validate, extra,
             [clock |-> t, schema |-> schema, cli |-> cli])

RunNull ==
    pc = "idle" /\
    \E validate \in BOOLEAN, extra \in ExtraMetadata, t \in Times, schema \in Verdicts :
        Call(NullCollector.NAME, validate, extra, [clock |-> t, schema |-> schema])

RunUnregistered ==
    pc = "idle" /\
    \E name \in UnregisteredNames, validate \in BOOLEAN, extra \in ExtraMetadata :
        Call(name, validate, extra, [schema |-> "ok"])

Next ==
    \/ RunEvm
    \/ RunSubstrate
    \/ RunAptos
    \/ RunDummychain
    \/ RunExampleGeth
    \/ RunNull
    \/ RunUnregistered

Spec == Init /\ [][Next]_vars

----------------------------------------------------------------------------
(* A second run of the same collector: the same caller arguments, the same *)
(* answers of the world, the clock at the same second or later.            *)

SecondRun ==
    /\ pc = "done" /\ call = NoCall
    /\ request.collector_name \in DOMAIN load_collectors
    /\ \E t \in world.clock..(MaxTime + 1) :
         \E r \in {run_collector(request.collector_name, request.validate,
                                 request.extra_metadata, [world EXCEPT !.clock = t])} :
             call' = [fn |-> "run_collector", clock |-> t,
                      outcome |-> r.outcome, result |-> r.result, log |-> r.log]
    /\ pc' = "again"
    /\ UNCHANGED <<request, world, outcome, result, log, threads, shared>>

SpecTwice == Init /\ [][Next \/ SecondRun]_vars

----------------------------------------------------------------------------
(* The ledger probe on its own: a node that would answer every candidate   *)

ProbeLedger ==
    pc = "idle" /\
    \E http \in [1..4 -> HttpResponses] :
        /\ call' = [fn |-> "_probe_ledger", rest_base |-> APTOS_DEFAULT_RPC, http |-> http,
                    ret |-> probe_ledger(APTOS_DEFAULT_RPC, http)]
        /\ pc' = "done"
        /\ UNCHANGED <<request, world, outcome, result, log, threads, shared>>

SpecProbe == Init /\ [][ProbeLedger]_vars

----------------------------------------------------------------------------
(* The registry on its own: packages of one or two modules whose classes   *)
(* may share a NAME, and the package of the repository                     *)

\* a second class with the NAME of RethCollector
OtherRethCollector == Class("OtherRethCollector", <<"r", "e", "t", "h">>, "9.9.9")

RegistryClasses == {BaseCollector, RethCollector, OtherRethCollector, OpRethCollector}

RegistryModules ==
    {<<>>} \cup {<<c>> : c \in RegistryClasses}
    \cup {<<c, d>> : c \in RegistryClasses, d \in RegistryClasses}

RegistryPackages ==
    {<<m>> : m \in RegistryModules}
    \cup {<<m, n>> : m \in RegistryModules, n \in RegistryModules}
    \cup {Modules}

LoadCollectors ==
    pc = "idle" /\
    \E modules \in RegistryPackages :
        /\ call' = [fn |-> "load_collectors", modules |-> modules,
                    ret |-> LoadModules(EmptyDict, modules)]
        /\ pc' = "done"
        /\ UNCHANGED <<request, world, outcome, result, log, threads, shared>>

SpecRegistry == Init /\ [][LoadCollectors]_vars

----------------------------------------------------------------------------
(* The network-name mapper on its own: one call on arguments of every kind *)

MapperChainIds == {None} \cup {Some(c) : c \in ChainIds}

MapperNetVersions ==
    {None, Some(<<>>), Some(<<"d", "e", "v">>), Some(<<"m", "a", "i", "n", "n", "e", "t">>),
     Some(<<"0", "x", "1">>), Some(<<"1", ".", "5">>), Some(<<"-", "1">>), Some(<<"+", "5">>)}
    \cup {Some(IntChars(c)) : c \in ChainIds}

MapNetworkName ==
    pc = "idle" /\
    \E chain_id \in MapperChainIds, net_version \in MapperNetVersions :
        /\ call' = [fn |-> "_map_network_name", chain_id |-> chain_id,
                    net_version |-> net_version,
                    ret |-> map_network_name(chain_id, net_version)]
        /\ pc' = "done"
        /\ UNCHANGED <<request, world, outcome, result, log, threads, shared>>

SpecMap == Init /\ [][MapNetworkName]_vars

----------------------------------------------------------------------------
(* The dwellir_harvester package: run_collector and collect_all of its     *)
(* core.  A collector class is [cls, NAME, VERSION, create], create        *)
(* telling whether the class has the factory that run_collector calls.     *)
(* What collect() of an instance does is part of the world: it returns a   *)
(* CollectResult of the core ("result"), returns a plain dict ("raw"),     *)
(* raises CollectorPartialError ("partial") or raises another exception    *)
(* ("failed").                                                             *)

\* the names a collect_all call is given at most
MaxNames == 3

HarvesterClass(cls, name, version, create) ==
    [cls |-> cls, NAME |-> name, VERSION |-> version, create |-> create]

HarvesterDummychainCollector == HarvesterClass("DummychainCollector", "dummychain", "0.1.0", TRUE)
\* a subclass of CollectorBase, which has no create
HarvesterOpRethCollector == HarvesterClass("OpRethCollector", "op-reth", "0.1.2", FALSE)
\* the host collector that the package imports
HarvesterHostCollector == HarvesterClass("HostCollector", "host", "0.1.0", TRUE)

\* what load_collectors of the package returns
harvester_load_collectors ==
    ("dummychain" :> HarvesterDummychainCollector)
    @@ ("op-reth" :> HarvesterOpRethCollector)
    @@ ("host" :> HarvesterHostCollector)

\* datetime.now(timezone.utc).isoformat() when the clock reads t
utc_isoformat(t) == "2025-01-01T00:00:0" \o Join(IntChars(t)) \o ".000000+00:00"

\* the data a collector gathers
harvester_data(name) == [blockchain |-> [client_name |-> name, chain_id |-> None]]

\* the messages of a CollectorPartialError
harvester_messages == <<"Missing chain_id.", "Unable to determine known network name.">>

\* what collect() of the collector does when the clock reads t
harvester_collect(CollectorCls, kind, t) ==
    CASE kind = "result" ->
            [kind |-> "result",
             metadata |-> [collector_name |-> CollectorCls.NAME,
                           collector_version |-> CollectorCls.VERSION,
                           collection_time |-> utc_isoformat(t),
                           status |-> "success", errors |-> <<>>],
             data |-> harvester_data(CollectorCls.NAME)]
      [] kind = "raw" ->
            [kind |-> "raw", data |-> harvester_data(CollectorCls.NAME)]
      [] kind = "partial" ->
            [kind |-> "partial", messages |-> harvester_messages,
             partial |-> [metadata |-> EmptyDict, data |-> harvester_data(CollectorCls.NAME)]]
      [] OTHER ->
            [kind |-> "failed", msg |-> "no RPC or CLI info"]

\* str(e) of the exception that collect() raised
harvester_str(o) == IF o.kind = "partial" THEN JoinWith("; ", o.messages) ELSE o.msg

\* the dict of the except Exception clause of run_collector
harvester_failed(collector_name, CollectorCls, error_msg, t) ==
    [meta |-> [collector_type |-> "generic",
               collector_name |-> collector_name,
               collector_version |-> CollectorCls.VERSION,
               collection_time |-> now_iso_tz(t),
               status |-> "failed",
               errors |-> <<error_msg>>],
     data |-> EmptyDict]

\* result.to_dict(), the result wrapped by CollectResult.create when it is
\* not a CollectResult
harvester_to_dict(collector_name, CollectorCls, o, t) ==
    IF o.kind = "result"
    THEN [metadata |-> o.metadata, data |-> o.data]
    ELSE [metadata |-> [collector_name |-> collector_name,
                        collector_version |-> CollectorCls.VERSION,
                        collection_time |-> utc_isoformat(t),
                        status |-> "success", errors |-> <<>>],
          data |-> o.data]

\* what run_collector returns for a result dict: the host data as it is,
\* the others restructured, their metadata having no collector_type
harvester_structured(collector_name, CollectorCls, result_dict, t) ==
    IF collector_name = "host"
    THEN [meta |-> [collector_type |-> "host",
                    collector_name |-> collector_name,
                    collector_version |-> CollectorCls.VERSION,
                    collection_time |-> now_iso_tz(t)],
          data |-> result_dict.data]
    ELSE [meta |-> [collector_type |-> "generic",
                    collector_name |-> result_dict.metadata.collector_name,
                    collector_version |-> result_dict.metadata.collector_version,
                    collection_time |-> result_dict.metadata.collection_time],
          data |-> result_dict.data]

\* the try statement of run_collector for what collect() did: the clause of
\* Exception comes first and takes a CollectorPartialError too
harvester_handled(collector_name, CollectorCls, o, t) ==
    IF o.kind \in {"result", "raw"}
    THEN harvester_structured(collector_name, CollectorCls,
                              harvester_to_dict(collector_name, CollectorCls, o, t), t)
    ELSE harvester_failed(collector_name, CollectorCls, harvester_str(o), t)

\* run_collector(collector_name) of the package: the dict it returns, or
\* the exception of its handler when CollectorCls was never bound
harvester_run_collector(collector_name, does, t) ==
    IF collector_name \notin DOMAIN harvester_load_collectors
    THEN [kind |-> "raise", exc |-> "UnboundLocalError",
          msg |-> "cannot access local variable 'CollectorCls' where it is not associated with a value"]
    ELSE IF ~harvester_load_collectors[collector_name].create
    THEN [kind |-> "return",
          value |-> harvester_failed(
              collector_name, harvester_load_collectors[collector_name],
              "type object '" \o harvester_load_collectors[collector_name].cls
                  \o "' has no attribute 'create'", t)]
    ELSE [kind |-> "return",
          value |-> harvester_handled(
              collector_name, harvester_load_collectors[collector_name],
              harvester_collect(harvester_load_collectors[collector_name],
                                does[collector_name], t), t)]

\* the body of the loop of collect_all for one name, r being what
\* run_collector did
harvester_merge(merged, name, r, collection_time) ==
    IF r.kind = "raise"
    THEN [merged EXCEPT !.collectors =
              Update(@, name :> [meta |-> [collector_type |-> "generic",
                                           collector_name |-> name,
                                           collector_version |-> "0.0.0",
                                           collection_time |-> collection_time],
                                 data |-> EmptyDict,
                                 message |-> "Collector failed: " \o r.msg])]
    ELSE IF name = "host"
    THEN [merged EXCEPT !.host = r.value.data]
    ELSE [merged EXCEPT !.collectors =
              Update(@, name :> [meta |-> r.value.meta, data |-> r.value.data])]

\* the loop of collect_all that ends at the first collector that does not
\* return a result
RECURSIVE harvester_loop_until_failure(_, _, _, _)
harvester_loop_until_failure(merged, collector_names, i, w) ==
    IF i > Len(collector_names) THEN merged
    ELSE IF \/ collector_names[i] \notin DOMAIN harvester_load_collectors
            \/ ~harvester_load_collectors[collector_names[i]].create
            \/ w.does[collector_names[i]] \in {"partial", "failed"}
    THEN merged
    ELSE harvester_loop_until_failure(
             harvester_merge(merged, collector_names[i],
                             harvester_run_collector(collector_names[i], w.does, w.clock[i]),
                             now_iso_tz(w.start)),
             collector_names, i + 1, w)

\* for name in collector_names, from the i-th name on
RECURSIVE harvester_loop(_, _, _, _)
harvester_loop(merged, collector_names, i, w) ==
    IF i > Len(collector_names) THEN merged
    ELSE harvester_loop(
             harvester_merge(merged, collector_names[i],
                             harvester_run_collector(collector_names[i], w.does, w.clock[i]),
                             now_iso_tz(w.start)),
             collector_names, i + 1, w)

\* collect_all(collector_names, schema_path, validate) in the world w
harvester_collect_all(collector_names, validate, w) ==
    IF validate /\ w.schema = "violation"
    THEN [kind |-> "raise", exc |-> "ValidationError"]
    ELSE [kind |-> "return",
          value |-> harvester_loop(
              [harvester |-> [harvester_version |-> "1.0.0",
                              collection_time |-> now_iso_tz(w.start),
                              collectors_used |-> collector_names],
               host |-> EmptyDict,
               collectors |-> EmptyDict],
              collector_names, 1, w)]

\* the names asked for: registered ones and one that is not
HarvesterNames == DOMAIN harvester_load_collectors \cup {"nope"}

HarvesterNameLists ==
    UNION {[1..n -> HarvesterNames] : n \in 0..MaxNames}

HarvesterKinds == {"result", "raw", "partial", "failed"}

\* what collect() of each collector that can be created does
HarvesterDoes == [{"dummychain", "host"} -> HarvesterKinds]

\* the world of a collect_all call: the collectors run one clock tick apart
HarvesterWorld(n, start, does, schema) ==
    [start |-> start, clock |-> [i \in 1..n |-> start + i], does |-> does, schema |-> schema]

HarvesterRunCollector ==
    pc = "idle" /\
    \E collector_name \in HarvesterNames, does \in HarvesterDoes, t \in Times :
        /\ call' = [fn |-> "harvester.run_collector", collector_name |-> collector_name,
                    does |-> does, clock |-> t,
                    ret |-> harvester_run_collector(collector_name, does, t)]
        /\ pc' = "done"
        /\ UNCHANGED <<request, world, outcome, result, log, threads, shared>>

CollectAll ==
    pc = "idle" /\
    \E collector_names \in HarvesterNameLists, validate \in BOOLEAN,
       start \in Times, does \in HarvesterDoes, schema \in Verdicts :
        /\ validate \/ schema = "ok"
        /\ call' = [fn |-> "collect_all", collector_names |-> collector_names,
                    validate |-> validate,
                    world |-> HarvesterWorld(Len(collector_names), start, does, schema),
                    ret |-> harvester_collect_all(
                                collector_names, validate,
                                HarvesterWorld(Len(collector_names), start, does, schema))]
        /\ pc' = "done"
        /\ UNCHANGED <<request, world, outcome, result, log, threads, shared>>

SpecHarvester == Init /\ [][HarvesterRunCollector \/ CollectAll]_vars

----------------------------------------------------------------------------
(* The JSON-RPC probes on their own: every shape of response                *)

\* every way a JSON-RPC call fails
AllRpcFailures ==
    {Failure("timeout"), Failure("urlerror"), Failure("malformed"), Failure("rpcerror")}

RpcUrls == {DEFAULT_RPC, SUBSTRATE_DEFAULT_RPC}

\* the methods that answer a string the collectors only copy
StringMethods == {"web3_clientVersion", "system_version", "system_name", "system_chain",
                  "chain_getBlockHash"}

\* _jsonrpc(url, method) for a method that answers a string
Jsonrpc ==
    pc = "idle" /\
    \E url \in RpcUrls, method \in StringMethods,
       resp \in AllRpcFailures \cup {Result(None), Result(Some("")), Result(Some("v1.0"))} :
        /\ call' = [fn |-> "_jsonrpc", url |-> url, method |-> method, resp |-> resp,
                    ret |-> jsonrpc(url, method, resp)]
        /\ pc' = "done"
        /\ UNCHANGED <<request, world, outcome, result, log, threads, shared>>

\* _get_net_version(url)
GetNetVersion ==
    pc = "idle" /\
    \E url \in RpcUrls, resp \in AllRpcFailures \cup NetVersionResponses :
        /\ call' = [fn |-> "_get_net_version", url |-> url, method |-> "net_version",
                    resp |-> resp, ret |-> jsonrpc(url, "net_version", resp)]
        /\ pc' = "done"
        /\ UNCHANGED <<request, world, outcome, result, log, threads, shared>>

\* _get_chain_id(url)
GetChainId ==
    pc = "idle" /\
    \E url \in RpcUrls, resp \in AllRpcFailures \cup ChainIdResponses :
        /\ call' = [fn |-> "_get_chain_id", url |-> url, method |-> "eth_chainId",
                    resp |-> resp, ret |-> chain_id_of(jsonrpc(url, "eth_chainId", resp))]
        /\ pc' = "done"
        /\ UNCHANGED <<request, world, outcome, result, log, threads, shared>>

SpecRpc == Init /\ [][Jsonrpc \/ GetNetVersion \/ GetChainId]_vars

----------------------------------------------------------------------------
(* The daemon of dwellir_harvester: CollectorDaemon.  The main thread runs *)
(* start(): the initial run_collectors(), the start of the worker thread,  *)
(* then the HTTP server, which handles one request at a time.  The worker  *)
(* thread runs _worker_loop.  Each step below is one statement that        *)
(* touches what the threads share; threads[th] is where thread th is and   *)
(* what it holds.  A snapshot is [kind, run]: "empty" ({}), the "result"   *)
(* of the run-th collect_all or the "error" record of that run.  The file  *)
(* is absent, open (truncated, not yet written) or written.                *)
(* collect_all of core.py takes no debug argument, so the call of          *)
(* run_collectors raises TypeError and the except clause runs; the steps   *)
(* after a call that returns are modelled as the code has them.            *)

\* the runs of run_collectors that are followed
MaxRuns == 2

Snapshot(kind, run) == [kind |-> kind, run |-> run]

\* threading.Lock: acquired although another thread holds it
lock_ignored(s) == TRUE

\* threading.Lock: acquire() goes on when no thread holds the lock
lock_available(s) == s.lock = "free"

CollectorDaemon_init ==
    /\ pc = "daemon"
    /\ request = None
    /\ world = None
    /\ outcome = [kind |-> "none"]
    /\ result = [kind |-> "none"]
    /\ log = <<>>
    /\ call = NoCall
    /\ threads = [main |-> [pc |-> "start", result |-> Snapshot("empty", 0),
                            data |-> Snapshot("empty", 0)],
                  worker |-> [pc |-> "unstarted", result |-> Snapshot("empty", 0),
                              data |-> Snapshot("empty", 0)]]
    /\ \E output_file \in BOOLEAN :
           shared = [lock |-> "free", latest_results |-> Snapshot("empty", 0),
                     file |-> [state |-> "absent", content |-> Snapshot("empty", 0)],
                     running |-> FALSE, runs |-> 0, output_file |-> output_file,
                     committed |-> Snapshot("empty", 0)]

\* start(): self.running = True, then the initial run_collectors()
CollectorDaemon_start ==
    /\ threads.main.pc = "start"
    /\ threads' = [threads EXCEPT !.main.pc = "collect"]
    /\ shared' = [shared EXCEPT !.running = TRUE]
    /\ UNCHANGED call_vars

\* run_collectors: collect_all returns the result of this run
run_collectors_collected(th) ==
    /\ threads[th].pc = "collect"
    /\ shared.runs < MaxRuns
    /\ threads' = [threads EXCEPT ![th].pc = "lock",
                                  ![th].result = Snapshot("result", shared.runs + 1)]
    /\ shared' = [shared EXCEPT !.runs = @ + 1]
    /\ UNCHANGED call_vars

\* run_collectors: the try block raises and the except clause builds the
\* error record
run_collectors_raised(th) ==
    /\ threads[th].pc = "collect"
    /\ shared.runs < MaxRuns
    /\ threads' = [threads EXCEPT ![th].pc = "lock_err",
                                  ![th].result = Snapshot("error", shared.runs + 1)]
    /\ shared' = [shared EXCEPT !.runs = @ + 1]
    /\ UNCHANGED call_vars

\* with self.lock: of run_collectors, in the try block and in the except clause
run_collectors_lock(th) ==
    /\ threads[th].pc \in {"lock", "lock_err"}
    /\ lock_available(shared)
    /\ shared' = [shared EXCEPT !.lock = th]
    /\ threads' = [threads EXCEPT ![th].pc = "replace"]
    /\ UNCHANGED call_vars

\* self.latest_results = result, or the error record
run_collectors_replace(th) ==
    /\ threads[th].pc = "replace"
    /\ shared' = [shared EXCEPT !.latest_results = threads[th].result]
    /\ threads' = [threads EXCEPT ![th].pc =
                       IF threads[th].result.kind = "result" /\ shared.output_file
                       THEN "open" ELSE "unlock"]
    /\ UNCHANGED call_vars

\* open(self.output_file, 'w'): the file is truncated, or the open fails and
\* the error is logged
run_collectors_open(th) ==
    /\ threads[th].pc = "open"
    /\ \/ /\ shared' = [shared EXCEPT !.file = [state |-> "open", content |-> Snapshot("empty", 0)]]
          /\ threads' = [threads EXCEPT ![th].pc = "dump"]
       \/ /\ shared' = shared
          /\ threads' = [threads EXCEPT ![th].pc = "unlock"]
    /\ UNCHANGED call_vars

\* json.dump(result, f) and the close of the file
run_collectors_dump(th) ==
    /\ threads[th].pc = "dump"
    /\ shared' = [shared EXCEPT !.file = [state |-> "written", content |-> threads[th].result]]
    /\ threads' = [threads EXCEPT ![th].pc = "unlock"]
    /\ UNCHANGED call_vars

\* the end of the with block and the return: the main thread goes on in
\* start(), the worker in its loop
run_collectors_unlock(th) ==
    /\ threads[th].pc = "unlock"
    /\ shared' = [shared EXCEPT !.lock = "free", !.committed = shared.latest_results]
    /\ threads' = [threads EXCEPT ![th].pc = IF th = "main" THEN "spawn" ELSE "loop"]
    /\ UNCHANGED call_vars

\* start(): self.worker_thread.start(), then httpd.serve_forever()
CollectorDaemon_start_worker ==
    /\ threads.main.pc = "spawn"
    /\ threads' = [threads EXCEPT !.main.pc = "serve", !.worker.pc = "loop"]
    /\ UNCHANGED <<shared, pc, request, world, outcome, result, log, call>>

\* _worker_loop: while self.running: self.run_collectors(); time.sleep(...)
worker_loop ==
    /\ threads.worker.pc = "loop"
    /\ threads' = [threads EXCEPT !.worker.pc = IF shared.running THEN "collect" ELSE "exited"]
    /\ UNCHANGED <<shared, pc, request, world, outcome, result, log, call>>

\* _handle_metadata: with daemon.lock
handle_metadata_lock ==
    /\ threads.main.pc = "serve"
    /\ lock_available(shared)
    /\ shared' = [shared EXCEPT !.lock = "main"]
    /\ threads' = [threads EXCEPT !.main.pc = "h_read"]
    /\ UNCHANGED call_vars

\* data = json.dumps(daemon.latest_results, indent=2).encode('utf-8')
handle_metadata_read ==
    /\ threads.main.pc = "h_read"
    /\ threads' = [threads EXCEPT !.main.pc = "h_unlock", !.main.data = shared.latest_results]
    /\ UNCHANGED <<shared, pc, request, world, outcome, result, log, call>>

\* the end of the with block of _handle_metadata
handle_metadata_unlock ==
    /\ threads.main.pc = "h_unlock"
    /\ shared' = [shared EXCEPT !.lock = "free"]
    /\ threads' = [threads EXCEPT !.main.pc = "h_respond"]
    /\ UNCHANGED call_vars

\* self._set_headers(); self.wfile.write(data): the server takes the next request
handle_metadata_respond ==
    /\ threads.main.pc = "h_respond"
    /\ threads' = [threads EXCEPT !.main.pc = "serve"]
    /\ UNCHANGED <<shared, pc, request, world, outcome, result, log, call>>

\* stop(), after serve_forever ends: self.running = False
CollectorDaemon_stop ==
    /\ threads.main.pc = "serve"
    /\ shared' = [shared EXCEPT !.running = FALSE]
    /\ threads' = [threads EXCEPT !.main.pc = "stopped"]
    /\ UNCHANGED call_vars

CollectorDaemon_next ==
    \/ CollectorDaemon_start
    \/ \E th \in {"main", "worker"} : run_collectors_collected(th)
    \/ \E th \in {"main", "worker"} : run_collectors_raised(th)
    \/ \E th \in {"main", "worker"} : run_collectors_lock(th)
    \/ \E th \in {"main", "worker"} : run_collectors_replace(th)
    \/ \E th \in {"main", "worker"} : run_collectors_open(th)
    \/ \E th \in {"main", "worker"} : run_collectors_dump(th)
    \/ \E th \in {"main", "worker"} : run_collectors_unlock(th)
    \/ CollectorDaemon_start_worker
    \/ worker_loop
    \/ handle_metadata_lock
    \/ handle_metadata_read
    \/ handle_metadata_unlock
    \/ handle_metadata_respond
    \/ CollectorDaemon_stop

SpecHarvesterDaemon == CollectorDaemon_init /\ [][CollectorDaemon_next]_vars

----------------------------------------------------------------------------
(* The daemon of blockchain_collector.  The main thread runs main(): the   *)
(* initial _run_once(), the start of the worker thread, then the HTTP      *)
(* server, which handles one request at a time (GET /metadata, POST /run). *)
(* The worker thread runs _worker.  _run_once runs the collector CLI as a  *)
(* subprocess, which writes the snapshot file itself; no lock is taken     *)
(* anywhere.  The file is absent, open (truncated by open(path, "w") and   *)
(* not yet written) or written with a snapshot.                            *)

\* the runs of _run_once that are followed
MaxOnce == 3

\* the default of collector.timeout
collector_timeout == 60

\* the default of collector.name
collector_name_default == "null"

NoSnapshot == [metadata |-> EmptyDict, blockchain |-> EmptyDict, workload |-> EmptyDict]

\* what the collector CLI writes: the envelope of run_collector
cli_snapshot(collector, status) ==
    [metadata |-> [collector_name |-> collector,
                   last_collect_status |-> status,
                   last_collect_errors |->
                       IF status = "success" THEN <<>> ELSE <<"RPC net_version unavailable">>],
     blockchain |-> IF status = "failed" THEN EmptyDict
                    ELSE [blockchain_ecosystem |-> "null"],
     workload |-> IF status = "failed" THEN EmptyDict ELSE [client_name |-> "null"]]

\* the snapshot of a run whose collector timed out, reported as partial
timeout_snapshot_partial(collector, timeout_sec) ==
    [metadata |-> [collector_name |-> collector,
                   last_collect_status |-> "partial",
                   last_collect_errors |->
                       <<"timeout after " \o Join(IntChars(timeout_sec)) \o "s">>],
     blockchain |-> EmptyDict,
     workload |-> EmptyDict]

\* the snapshot _run_once writes when the subprocess timed out
timeout_snapshot(collector, timeout_sec) ==
    [metadata |-> [collector_name |-> collector,
                   last_collect_status |-> "failed",
                   last_collect_errors |->
                       <<"timeout after " \o Join(IntChars(timeout_sec)) \o "s">>],
     blockchain |-> EmptyDict,
     workload |-> EmptyDict]

\* the snapshot _run_once writes when the subprocess left no file
minimal_snapshot(collector) ==
    [metadata |-> [collector_name |-> collector,
                   last_collect_status |-> "failed",
                   last_collect_errors |-> <<"collector produced no output file">>],
     blockchain |-> EmptyDict,
     workload |-> EmptyDict]

\* _read_metadata_status(path): the status and the errors
read_metadata_status(file) ==
    CASE file.state = "absent" ->
            [status |-> "missing", errors |-> <<"metadata file not found">>]
      [] file.state = "open" ->
            [status |-> "invalid", errors |-> <<"invalid metadata: Expecting value">>]
      [] OTHER ->
            [status |-> file.content.metadata.last_collect_status,
             errors |-> file.content.metadata.last_collect_errors]

\* what _run_once returns after the subprocess has exited
run_once_result(status, returncode) ==
    IF status.status # "success"
    THEN [ok |-> FALSE, status |-> status.status,
          error |-> IF status.errors # <<>> THEN status.errors[1]
                    ELSE "status=" \o status.status]
    ELSE IF returncode # 0
    THEN [ok |-> FALSE, status |-> status.status,
          error |-> "exit_code=" \o Join(IntChars(returncode))]
    ELSE [ok |-> TRUE, status |-> status.status, error |-> ""]

\* where a thread goes on after _run_once: main() after the initial run,
\* do_POST after a triggered run, _worker after a scheduled run
after_run(caller) ==
    CASE caller = "initial" -> "thread_start"
      [] caller = "post" -> "respond"
      [] OTHER -> "loop"

DaemonThread(at) ==
    [pc |-> at, caller |-> "none", sub |-> "none", returncode |-> 0,
     timed_out |-> FALSE, spawned |-> 0, writing |-> NoSnapshot, wrote |-> <<>>,
     ret |-> [ok |-> FALSE, status |-> "", error |-> ""],
     response |-> [code |-> 0, body |-> [state |-> "absent", content |-> NoSnapshot]]]

daemon_init ==
    /\ pc = "daemon"
    /\ request = None
    /\ world = None
    /\ outcome = [kind |-> "none"]
    /\ result = [kind |-> "none"]
    /\ log = <<>>
    /\ call = NoCall
    /\ threads = [main |-> DaemonThread("main"), worker |-> DaemonThread("unstarted")]
    /\ shared = [file |-> [state |-> "absent", content |-> NoSnapshot], runs |-> 0]

\* a call of _run_once by the thread: the command is built
run_once_called(th, caller) ==
    /\ shared.runs < MaxOnce
    /\ shared' = [shared EXCEPT !.runs = @ + 1]
    /\ threads' = [threads EXCEPT ![th].pc = "run", ![th].caller = caller,
                                  ![th].sub = "none", ![th].returncode = 0,
                                  ![th].timed_out = FALSE, ![th].spawned = 0,
                                  ![th].wrote = <<>>]
    /\ UNCHANGED call_vars

\* main(): the initial _run_once()
main_initial_run ==
    /\ threads.main.pc = "main"
    /\ run_once_called("main", "initial")

\* main(): t.start(), then serve_forever()
main_start_worker ==
    /\ threads.main.pc = "thread_start"
    /\ threads' = [threads EXCEPT !.main.pc = "serve", !.worker.pc = "loop"]
    /\ UNCHANGED <<shared, pc, request, world, outcome, result, log, call>>

\* _worker: while True: _run_once(); time.sleep(max(5, interval))
worker_run ==
    /\ threads.worker.pc = "loop"
    /\ run_once_called("worker", "worker")

\* do_POST for /run: res = _run_once()
do_POST_run ==
    /\ threads.main.pc = "serve"
    /\ run_once_called("main", "post")

\* do_POST: the response is sent and the server takes the next request
do_POST_respond ==
    /\ threads.main.pc = "respond"
    /\ threads' = [threads EXCEPT !.main.pc = "serve",
                                  !.main.response =
                                      [code |-> IF threads.main.ret.ok THEN 200 ELSE 500,
                                       body |-> [state |-> "absent", content |-> NoSnapshot]]]
    /\ UNCHANGED <<shared, pc, request, world, outcome, result, log, call>>

\* do_GET for /metadata: the file is read as it is, or 404 when it is absent
do_GET_metadata ==
    /\ threads.main.pc = "serve"
    /\ threads' = [threads EXCEPT !.main.response =
                       IF shared.file.state = "absent"
                       THEN [code |-> 404, body |-> [state |-> "absent", content |-> NoSnapshot]]
                       ELSE [code |-> 200, body |-> shared.file]]
    /\ UNCHANGED <<shared, pc, request, world, outcome, result, log, call>>

\* _run_once: subprocess.run(cmd, ..., timeout=timeout_sec) starts the CLI
run_once_spawn(th) ==
    /\ threads[th].pc = "run"
    /\ threads' = [threads EXCEPT ![th].pc = "wait", ![th].sub = "running",
                                  ![th].spawned = @ + 1]
    /\ UNCHANGED <<shared, pc, request, world, outcome, result, log, call>>

\* the CLI: run_collector returned and open(args.output, "w") truncates the file
cli_open(th) ==
    /\ threads[th].pc = "wait" /\ threads[th].sub = "running"
    /\ shared' = [shared EXCEPT !.file = [state |-> "open", content |-> NoSnapshot]]
    /\ threads' = [threads EXCEPT ![th].sub = "opened"]
    /\ UNCHANGED call_vars

\* the CLI: f.write(out + "\n"), the file is closed and the process exits
cli_write(th) ==
    /\ threads[th].pc = "wait" /\ threads[th].sub = "opened"
    /\ \E status \in {"success", "partial", "failed"} :
           shared' = [shared EXCEPT !.file =
                          [state |-> "written",
                           content |-> cli_snapshot(collector_name_default, status)]]
    /\ threads' = [threads EXCEPT ![th].sub = "exited", ![th].returncode = 0]
    /\ UNCHANGED call_vars

\* the CLI: run_collector raises (KeyError, ValidationError) and the process
\* exits with a code that is not zero, the file untouched
cli_raise(th) ==
    /\ threads[th].pc = "wait" /\ threads[th].sub = "running"
    /\ threads' = [threads EXCEPT ![th].sub = "exited", ![th].returncode = 1]
    /\ UNCHANGED <<shared, pc, request, world, outcome, result, log, call>>

\* _run_once: the timeout expires before the subprocess exits; the
\* subprocess is killed where it is and TimeoutExpired is raised
run_once_timeout(th) ==
    /\ threads[th].pc = "wait" /\ threads[th].sub \in {"running", "opened"}
    /\ threads' = [threads EXCEPT ![th].pc = "open", ![th].sub = "killed",
                                  ![th].timed_out = TRUE,
                                  ![th].writing =
                                      timeout_snapshot(collector_name_default, collector_timeout)]
    /\ UNCHANGED <<shared, pc, request, world, outcome, result, log, call>>

\* _run_once: the subprocess has exited; a file that is not there is
\* written, an existing one is read
run_once_exited(th) ==
    /\ threads[th].pc = "wait" /\ threads[th].sub = "exited"
    /\ threads' = [threads EXCEPT ![th].pc =
                       IF shared.file.state = "absent" THEN "open" ELSE "status",
                                  ![th].writing = minimal_snapshot(collector_name_default)]
    /\ UNCHANGED <<shared, pc, request, world, outcome, result, log, call>>

\* _run_once: with open(METADATA_PATH, "w") truncates the file
run_once_open(th) ==
    /\ threads[th].pc = "open"
    /\ shared' = [shared EXCEPT !.file = [state |-> "open", content |-> NoSnapshot]]
    /\ threads' = [threads EXCEPT ![th].pc = "dump"]
    /\ UNCHANGED call_vars

\* _run_once: json.dump(..., f) and the close of the file; after a timeout
\* the dict is returned
run_once_dump(th) ==
    /\ threads[th].pc = "dump"
    /\ shared' = [shared EXCEPT !.file = [state |-> "written", content |-> threads[th].writing]]
    /\ threads' = [threads EXCEPT
           ![th].wrote = Append(@, threads[th].writing),
           ![th].pc = IF threads[th].timed_out THEN after_run(threads[th].caller) ELSE "status",
           ![th].ret = IF threads[th].timed_out
                       THEN [ok |-> FALSE, status |-> "",
                             error |-> "timeout after "
                                       \o Join(IntChars(collector_timeout)) \o "s"]
                       ELSE @]
    /\ UNCHANGED call_vars

\* _run_once: _read_metadata_status and the dict that is returned
run_once_status(th) ==
    /\ threads[th].pc = "status"
    /\ threads' = [threads EXCEPT
           ![th].pc = after_run(threads[th].caller),
           ![th].ret = run_once_result(read_metadata_status(shared.file),
                                       threads[th].returncode)]
    /\ UNCHANGED <<shared, pc, request, world, outcome, result, log, call>>

daemon_next ==
    \/ main_initial_run
    \/ main_start_worker
    \/ worker_run
    \/ do_POST_run
    \/ do_POST_respond
    \/ do_GET_metadata
    \/ \E th \in {"main", "worker"} : run_once_spawn(th)
    \/ \E th \in {"main", "worker"} : cli_open(th)
    \/ \E th \in {"main", "worker"} : cli_write(th)
    \/ \E th \in {"main", "worker"} : cli_raise(th)
    \/ \E th \in {"main", "worker"} : run_once_timeout(th)
    \/ \E th \in {"main", "worker"} : run_once_exited(th)
    \/ \E th \in {"main", "worker"} : run_once_open(th)
    \/ \E th \in {"main", "worker"} : run_once_dump(th)
    \/ \E th \in {"main", "worker"} : run_once_status(th)

SpecDaemon == daemon_init /\ [][daemon_next]_vars

----------------------------------------------------------------------------
(* collect() of an EVM collector, one probe at a time.  The frame of the   *)
(* call is in threads, the clock and the binary of the host in shared.     *)
(* The clock counts periods of 2.5 s, the timeout of _jsonrpc.             *)

\* the periods the clock is followed for while a probe without timeout waits
MaxClock == 3

\* timeout=2.5 of _jsonrpc, in periods of the clock
jsonrpc_timeout == 1

RpcMethods == {"web3_clientVersion", "eth_chainId", "net_version"}

\* the timeout of the probe collect() waits in: subprocess.run([bin,
\* "--version"], capture_output=True, text=True, check=True) is given none,
\* urlopen(req, timeout=timeout) is given that of _jsonrpc
probe_timeout(at) == IF at = "cli" THEN None ELSE Some(jsonrpc_timeout)

\* the probe that follows in collect()
probe_after(at) ==
    CASE at = "cli" -> "web3_clientVersion"
      [] at = "web3_clientVersion" -> "eth_chainId"
      [] at = "eth_chainId" -> "net_version"
      [] OTHER -> "classify"

\* the CLI probe of the collector of that name
collector_cli(name, o) == IF name = "reth" THEN RethCollector_cli(o) ELSE reth_cli(o)

\* the responses a method is followed with
rpc_responses(method) ==
    CASE method = "web3_clientVersion" -> StringResponses("reth/v1.0.0")
      [] method = "eth_chainId" -> ChainIdResponses
      [] OTHER -> NetVersionResponses

collect_init ==
    /\ pc = "collect"
    /\ request = None
    /\ world = None
    /\ outcome = [kind |-> "none"]
    /\ result = [kind |-> "none"]
    /\ log = <<>>
    /\ call = NoCall
    /\ \E name \in {RethCollector.NAME, OpRethCollector.NAME, BeraRethCollector.NAME} :
        threads = [name |-> name, at |-> "start", waited |-> 0,
                   cli |-> [val |-> None, messages |-> <<>>],
                   rpc |-> [m \in RpcMethods |-> [val |-> None, err |-> None]],
                   outcome |-> [kind |-> "none"]]
    /\ \E bin \in BOOLEAN : shared = [clock |-> 0, bin |-> bin]

\* the probe is over: collect() goes on to the next one
probe_done(at, cli, rpc) ==
    /\ threads' = [threads EXCEPT !.at = probe_after(at), !.waited = 0,
                                  !.cli = cli, !.rpc = rpc]
    /\ UNCHANGED shared
    /\ UNCHANGED call_vars

\* the CLI probe begins: without a binary (_find_reth_bin gives None, or
\* subprocess.run raises FileNotFoundError at once) the message is appended
\* and the RPC probes follow, with one the child runs and collect() waits
collect_spawn ==
    /\ pc = "collect"
    /\ threads.at = "start"
    /\ IF shared.bin
       THEN /\ threads' = [threads EXCEPT !.at = "cli", !.waited = 0]
            /\ UNCHANGED shared
            /\ UNCHANGED call_vars
       ELSE probe_done("cli",
                       collector_cli(threads.name, [kind |-> "notfound", lines |-> <<>>]),
                       threads.rpc)

\* the child exits: with a non-zero status, or with its output
cli_exits ==
    /\ pc = "collect"
    /\ threads.at = "cli"
    /\ \E o \in CliOutcomes(<<"reth-cli 1.6.0">>) :
        /\ o.kind # "notfound"
        /\ probe_done("cli", collector_cli(threads.name, o), threads.rpc)

\* the node answers the call collect() waits in, or refuses the connection
rpc_answers ==
    /\ pc = "collect"
    /\ threads.at \in RpcMethods
    /\ \E resp \in rpc_responses(threads.at) :
        \E r \in {jsonrpc(DEFAULT_RPC, threads.at, resp)} :
            probe_done(threads.at, threads.cli,
                       [threads.rpc EXCEPT ![threads.at] =
                            IF threads.at = "eth_chainId" THEN chain_id_of(r) ELSE r])

\* the timeout of the probe expires: socket.timeout in _jsonrpc
probe_expires ==
    /\ pc = "collect"
    /\ threads.at \in RpcMethods \cup {"cli"}
    /\ probe_timeout(threads.at) # None
    /\ threads.waited = Val(probe_timeout(threads.at))
    /\ IF threads.at = "cli"
       THEN probe_done("cli", collector_cli(threads.name, [kind |-> "failed", lines |-> <<>>]),
                       threads.rpc)
       ELSE probe_done(threads.at, threads.cli,
                       [threads.rpc EXCEPT ![threads.at] =
                            jsonrpc(DEFAULT_RPC, threads.at, Failure("timeout"))])

\* a period passes while collect() waits: a probe with a timeout waits no
\* longer than it
clock_tick ==
    /\ pc = "collect"
    /\ threads.at \in RpcMethods \cup {"cli"}
    /\ IF probe_timeout(threads.at) = None THEN shared.clock < MaxClock
       ELSE threads.waited < Val(probe_timeout(threads.at))
    /\ threads' = [threads EXCEPT !.waited = @ + 1]
    /\ shared' = [shared EXCEPT !.clock = @ + 1]
    /\ UNCHANGED call_vars

\* the classification of collect(): it returns or raises
collect_classify ==
    /\ pc = "collect"
    /\ threads.at = "classify"
    /\ \E o \in {IF threads.name = "reth"
                 THEN RethCollector_probed(DEFAULT_RPC, threads.cli,
                                           threads.rpc["web3_clientVersion"],
                                           threads.rpc["eth_chainId"],
                                           threads.rpc["net_version"])
                 ELSE reth_probed(threads.name, DEFAULT_RPC, threads.cli,
                                  threads.rpc["web3_clientVersion"],
                                  threads.rpc["eth_chainId"],
                                  threads.rpc["net_version"])} :
        threads' = [threads EXCEPT !.at = "done", !.outcome = o]
    /\ UNCHANGED shared
    /\ UNCHANGED call_vars

collect_next ==
    \/ collect_spawn
    \/ cli_exits
    \/ rpc_answers
    \/ probe_expires
    \/ clock_tick
    \/ collect_classify

SpecCollect == collect_init /\ [][collect_next]_vars

\* the scheduling of the process: collect() takes its own steps, the clock
\* goes on, and a call with a timeout ends by its answer or by the timeout;
\* nothing makes the child of a --version run exit
SpecCollectFair ==
    /\ SpecCollect
    /\ WF_vars(collect_spawn)
    /\ WF_vars(clock_tick)
    /\ WF_vars(rpc_answers \/ probe_expires)
    /\ WF_vars(collect_classify)

----------------------------------------------------------------------------
(* What the runs are checked against.  A run has ended when pc is "done";  *)
(* the probes of the run are read back from the world it ran in.           *)

EvmNames == {"reth", "op-reth", "bera-reth"}
CommonEvmNames == {"op-reth", "bera-reth"}
SubstrateNames == {"substrate", "ajuna", "polkadot"}
RegisteredNames ==
    EvmNames \cup SubstrateNames \cup {"aptos", "dummychain", "null", "example_geth"}

Ran(names) == pc = "done" /\ call = NoCall /\ request.collector_name \in names

Envelope == result.kind = "envelope"

\* what the four probes of an EVM run gave
cli_version == reth_cli(world.cli).val
rpc_version == get_client_version_from_rpc(world.rpc_url, world.rpc).val
rpc_chain_id == get_chain_id(world.rpc_url, world.rpc).val
rpc_net_version == get_net_version(world.rpc_url, world.rpc).val

\* each probe gave null or a non-empty value
NullOrNonEmpty == rpc_version # Some("") /\ rpc_net_version # Some(<<>>)

CollectFailed == outcome.kind = "raise" /\ outcome.exc = "CollectorFailedError"

\* C1: collect_reth, for op-reth and bera-reth, over the four probes each null
\* or non-empty: it fails exactly when all four are null, it succeeds exactly
\* when a client version (RPC or CLI) and the chain id are there and the
\* mapped network name is not "unknown", and it is partial in every other case
C1_Classification ==
    Ran(CommonEvmNames) /\ NullOrNonEmpty =>
        LET none == /\ cli_version = None /\ rpc_version = None
                    /\ rpc_chain_id = None /\ rpc_net_version = None
            all == /\ (rpc_version # None \/ cli_version # None)
                   /\ rpc_chain_id # None
                   /\ map_network_name(rpc_chain_id, rpc_net_version) # "unknown"
        IN  /\ CollectFailed <=> none
            /\ outcome.kind = "return" <=> all
            /\ outcome.kind = "partial" <=> ~none /\ ~all
            /\ outcome.kind \in {"raise", "return", "partial"}

\* a run in which net_version alone answered: some information, not complete
C1_Witness ==
    /\ Ran(CommonEvmNames) /\ NullOrNonEmpty
    /\ cli_version = None /\ rpc_version = None /\ rpc_chain_id = None
    /\ rpc_net_version # None
    /\ outcome.kind = "partial"

\* every probe of the run ended in an error
AllProbesError ==
    CASE request.collector_name \in EvmNames ->
            /\ world.cli.kind \in {"notfound", "failed"}
            /\ \A m \in DOMAIN world.rpc : world.rpc[m].kind # "result"
      [] request.collector_name \in SubstrateNames ->
            \A m \in DOMAIN world.rpc : world.rpc[m].kind # "result"
      [] request.collector_name = "aptos" ->
            \A i \in DOMAIN world.http : world.http[i].kind # "ok"
      [] request.collector_name = "dummychain" ->
            world.cli.kind \in {"notfound", "failed"}
      [] OTHER -> FALSE

\* C2: when every probe of a run ends in an error, the envelope has the status
\* failed, empty blockchain and workload buckets and a non-empty error list
C2_AllProbesErrorFailed ==
    Ran(EvmNames \cup SubstrateNames \cup {"aptos", "dummychain"})
    /\ request.extra_metadata = None /\ AllProbesError =>
        /\ Envelope
        /\ result.output.metadata.last_collect_status = "failed"
        /\ result.output.blockchain = EmptyDict
        /\ result.output.workload = EmptyDict
        /\ result.output.metadata.last_collect_errors # <<>>

\* the version an EVM run resolved, "unknown" when it resolved none
resolved_version ==
    IF Truthy(rpc_version) THEN Val(rpc_version)
    ELSE IF cli_version # None THEN Val(cli_version)
    ELSE "unknown"

resolved_network == map_network_name(rpc_chain_id, rpc_net_version)

\* how many of client version, chain id and network name are not resolved
Unresolved ==
    (IF resolved_version = "unknown" THEN 1 ELSE 0)
    + (IF rpc_chain_id = None THEN 1 ELSE 0)
    + (IF resolved_network = "unknown" THEN 1 ELSE 0)

SomeProbeAnswered ==
    \/ Truthy(rpc_version) \/ cli_version # None
    \/ rpc_chain_id # None \/ rpc_net_version # None

\* C3: an EVM run in which exactly one of client version, chain id and
\* network name is not resolved, some probe having answered, gives the status
\* partial, and the buckets hold the values that were resolved
C3_PartialKeepsResolved ==
    Ran(EvmNames) /\ request.extra_metadata = None
    /\ SomeProbeAnswered /\ Unresolved = 1 =>
        /\ Envelope
        /\ result.output.metadata.last_collect_status = "partial"
        /\ DOMAIN result.output.workload # {}
        /\ DOMAIN result.output.blockchain # {}
        /\ resolved_version # "unknown" =>
               result.output.workload.client_version = resolved_version
        /\ rpc_chain_id # None =>
               result.output.blockchain.chain_id = Val(rpc_chain_id)
        /\ resolved_network # "unknown" =>
               result.output.blockchain.blockchain_network_name = resolved_network

\* the extra metadata leaves the standard keys alone
StandardKeysKept ==
    \/ request.extra_metadata = None
    \/ DOMAIN Val(request.extra_metadata)
           \cap {"collector_name", "collector_version", "last_collect_attempt_at",
                 "last_collect_status", "last_collect_errors",
                 "last_successful_collect_at"} = {}

\* the node answers version v, chain id c of the table and net_version c
FullAnswer(v, c) ==
    /\ world.rpc.web3_clientVersion = Result(Some(v))
    /\ world.rpc.eth_chainId = Result(Some(HexChars(c)))
    /\ world.rpc.net_version = Result(Some(IntChars(c)))

\* C4: when the node of an EVM collector answers a client version v, a chain
\* id c of the table and net_version c, the envelope has the status success,
\* chain_id c, the table's name of c, client_version v, the client name of
\* the collector and last_successful_collect_at
C4_FullSuccess ==
    \A c \in DOMAIN mapping :
        Ran(EvmNames) /\ StandardKeysKept /\ FullAnswer("reth/v1.0.0", c) =>
            /\ outcome.kind = "return"
            /\ Envelope \/ (request.validate /\ world.schema = "violation")
            /\ Envelope =>
                /\ result.output.metadata.last_collect_status = "success"
                /\ "last_successful_collect_at" \in DOMAIN result.output.metadata
                /\ result.output.blockchain.chain_id = c
                /\ result.output.blockchain.blockchain_network_name = mapping[c]
                /\ result.output.workload.client_version = "reth/v1.0.0"
                /\ result.output.workload.client_name = request.collector_name

\* holesky answered in full to bera-reth, the envelope returned
C4_Witness ==
    /\ Ran({"bera-reth"}) /\ StandardKeysKept /\ FullAnswer("reth/v1.0.0", 17000)
    /\ Envelope
    /\ result.output.blockchain.blockchain_network_name = "holesky"

----------------------------------------------------------------------------
(* What the mapper is checked against: the names are written out here      *)

TableName(c) ==
    CASE c = 1 -> "mainnet" [] c = 5 -> "goerli"
      [] c = 17000 -> "holesky" [] c = 11155111 -> "sepolia"

TableIds == {1, 5, 17000, 11155111}

MapCalled == pc = "done" /\ call.fn = "_map_network_name"

\* C6: for a chain id of the table, _map_network_name returns the table's
\* name of it whatever net_version is
C6_TableWins ==
    MapCalled /\ call.chain_id # None /\ Val(call.chain_id) \in TableIds =>
        call.ret = TableName(Val(call.chain_id))

\* chain id 1 with a net_version that names goerli
C6_Witness ==
    /\ MapCalled /\ call.chain_id = Some(1) /\ call.net_version = Some(<<"5">>)
    /\ call.ret = "mainnet"

\* C7, as stated: for a chain id n that is not in the table,
\* _map_network_name(n, null) returns "network-<n>"
C7_NullSynthesized ==
    MapCalled /\ call.chain_id # None /\ Val(call.chain_id) \notin TableIds
    /\ call.net_version = None =>
        call.ret = "network-" \o Join(IntChars(Val(call.chain_id)))

\* C7, amended: for a chain id n that is not in the table,
\* _map_network_name(n, null) returns "unknown", and "network-<n>" is what
\* it returns when net_version is n in decimal
C7_NullUnknown ==
    MapCalled /\ call.chain_id # None /\ Val(call.chain_id) \notin TableIds =>
        /\ call.net_version = None => call.ret = "unknown"
        /\ call.net_version = Some(IntChars(Val(call.chain_id))) =>
               call.ret = "network-" \o Join(IntChars(Val(call.chain_id)))

\* chain id 3 with no net_version
C7_Witness ==
    /\ MapCalled /\ call.chain_id = Some(3) /\ call.net_version = None
    /\ call.ret = "unknown"

\* C8: with a chain id that is null or not in the table, a net_version that
\* is a decimal integer d gives the table's name of d, or "network-<d>" when
\* d is not in the table; any other non-empty net_version is returned as it
\* is; a null or empty one gives "unknown"
C8_FallbackOrder ==
    MapCalled /\ (call.chain_id = None \/ Val(call.chain_id) \notin TableIds) =>
        /\ \A d \in ChainIds :
               call.net_version = Some(IntChars(d)) =>
                   call.ret = IF d \in TableIds THEN TableName(d)
                              ELSE "network-" \o Join(IntChars(d))
        /\ call.net_version = Some(<<"+", "5">>) => call.ret = "goerli"
        /\ call.net_version = Some(<<"-", "1">>) => call.ret = "network--1"
        /\ call.net_version = Some(<<"d", "e", "v">>) => call.ret = "dev"
        /\ call.net_version = Some(<<"m", "a", "i", "n", "n", "e", "t">>) => call.ret = "mainnet"
        /\ call.net_version = Some(<<"0", "x", "1">>) => call.ret = "0x1"
        /\ call.net_version = Some(<<"1", ".", "5">>) => call.ret = "1.5"
        /\ call.net_version \in {None, Some(<<>>)} => call.ret = "unknown"

\* no chain id and net_version "1"
C8_Witness ==
    /\ MapCalled /\ call.chain_id = None /\ call.net_version = Some(<<"1">>)
    /\ call.ret = "mainnet"

----------------------------------------------------------------------------
(* What run_collector is checked against *)

\* C9: run_collector with a name that is not registered raises a KeyError
\* whose message lists the registered names in sorted order; it constructs no
\* collector, calls no collect() and returns no envelope
C9_UnregisteredRaises ==
    pc = "done" /\ call = NoCall /\ request.collector_name \notin RegisteredNames =>
        /\ result.kind = "raised"
        /\ result.exc = "KeyError"
        /\ result.msg = "Collector '" \o request.collector_name
                        \o "' not found. Available: ajuna, aptos, bera-reth, dummychain, "
                        \o "example_geth, null, op-reth, polkadot, reth, substrate"
        /\ log = <<"load_collectors">>
        /\ outcome.kind = "none"

\* the name "geth" was asked for
C9_Witness ==
    /\ pc = "done" /\ call = NoCall /\ request.collector_name = "geth"
    /\ result.kind = "raised"

\* C10: for a registered collector and validation disabled, run_collector
\* returns an envelope with metadata (last_collect_attempt_at in it),
\* blockchain and workload whatever collect() did: a return gives success
\* with the returned buckets, CollectorPartialError gives partial with its
\* payload (empty buckets when it has none) and its messages, any other
\* exception gives failed with empty buckets and a non-empty error list
C10_AlwaysEnvelope ==
    Ran(RegisteredNames) /\ ~request.validate =>
        /\ Envelope
        /\ DOMAIN result.output = {"metadata", "blockchain", "workload"}
        /\ "last_collect_attempt_at" \in DOMAIN result.output.metadata
        /\ outcome.kind \in {"return", "partial", "raise"}
        /\ outcome.kind = "return" =>
            /\ result.output.blockchain = outcome.res.blockchain
            /\ result.output.workload = outcome.res.workload
            /\ StandardKeysKept =>
                /\ result.output.metadata.last_collect_status = "success"
        /\ outcome.kind = "partial" =>
            /\ result.output.blockchain =
                   IF outcome.partial # None THEN Val(outcome.partial).blockchain
                   ELSE EmptyDict
            /\ result.output.workload =
                   IF outcome.partial # None THEN Val(outcome.partial).workload
                   ELSE EmptyDict
            /\ StandardKeysKept =>
                /\ result.output.metadata.last_collect_status = "partial"
                /\ result.output.metadata.last_collect_errors = outcome.messages
        /\ outcome.kind = "raise" =>
            /\ result.output.blockchain = EmptyDict
            /\ result.output.workload = EmptyDict
            /\ StandardKeysKept =>
                /\ result.output.metadata.last_collect_status = "failed"
                /\ result.output.metadata.last_collect_errors # <<>>

\* collect() of reth raised a TypeError, validation disabled
C10_Witness ==
    /\ Ran({"reth"}) /\ ~request.validate /\ StandardKeysKept
    /\ outcome.kind = "raise" /\ outcome.exc = "TypeError"
    /\ Envelope
    /\ result.output.metadata.last_collect_status = "failed"

----------------------------------------------------------------------------
(* What the metadata of an envelope is checked against *)

ExtraKeys ==
    IF request.extra_metadata = None THEN {} ELSE DOMAIN Val(request.extra_metadata)

\* C11, as stated: in every envelope, whatever the outcome and the extra
\* metadata, last_successful_collect_at is present only if last_collect_status
\* is "success"
C11_StampOnlyOnSuccess ==
    Ran(RegisteredNames) /\ Envelope =>
        ("last_successful_collect_at" \in DOMAIN result.output.metadata
            => result.output.metadata.last_collect_status = "success")

\* C11, amended: in every envelope whose extra metadata has neither the key
\* last_successful_collect_at nor the key last_collect_status, whatever the
\* outcome, last_successful_collect_at is present only if last_collect_status
\* is "success"
C11_StampOnlyOnSuccessUnlessOverwritten ==
    Ran(RegisteredNames) /\ Envelope
    /\ ExtraKeys \cap {"last_successful_collect_at", "last_collect_status"} = {} =>
        ("last_successful_collect_at" \in DOMAIN result.output.metadata
            => result.output.metadata.last_collect_status = "success")

\* a partial envelope with a deployment tag and no last_successful_collect_at
C11_Witness ==
    /\ Ran(RegisteredNames) /\ Envelope
    /\ ExtraKeys = {"deployment"}
    /\ outcome.kind = "partial"
    /\ "last_successful_collect_at" \notin DOMAIN result.output.metadata

\* the status and the errors that the outcome of collect() stands for
ExpectedStatus ==
    CASE outcome.kind = "return" -> "success"
      [] outcome.kind = "partial" -> "partial"
      [] outcome.kind = "raise" -> "failed"

ExpectedErrors ==
    CASE outcome.kind = "return" -> <<>>
      [] outcome.kind = "partial" -> outcome.messages
      [] outcome.kind = "raise" -> <<outcome.repr>>

ExpectedBuckets ==
    CASE outcome.kind = "return" -> outcome.res
      [] outcome.kind = "partial" /\ outcome.partial # None -> Val(outcome.partial)
      [] OTHER -> [blockchain |-> EmptyDict, workload |-> EmptyDict]

\* C12: every key of extra_metadata has the value of extra_metadata in the
\* metadata of the envelope, a standard key included; every standard key that
\* extra_metadata does not have keeps the value of the run; the buckets are
\* those of the run
C12_LastWriteWins ==
    Ran(RegisteredNames) /\ Envelope =>
        LET md == result.output.metadata
            kept(k) == k \notin ExtraKeys
        IN  /\ \A k \in ExtraKeys : k \in DOMAIN md /\ md[k] = Val(request.extra_metadata)[k]
            /\ kept("collector_name") => md.collector_name = request.collector_name
            /\ kept("collector_version") =>
                   md.collector_version = load_collectors[request.collector_name].VERSION
            /\ kept("last_collect_attempt_at") =>
                   md.last_collect_attempt_at = now_iso_tz(world.clock)
            /\ kept("last_collect_status") => md.last_collect_status = ExpectedStatus
            /\ kept("last_collect_errors") => md.last_collect_errors = ExpectedErrors
            /\ kept("last_successful_collect_at") =>
                   IF outcome.kind = "return"
                   THEN md.last_successful_collect_at = now_iso_tz(world.clock)
                   ELSE "last_successful_collect_at" \notin DOMAIN md
            /\ DOMAIN md \subseteq ExtraKeys \cup
                   {"collector_name", "collector_version", "last_collect_attempt_at",
                    "last_collect_status", "last_collect_errors",
                    "last_successful_collect_at"}
            /\ result.output.blockchain = ExpectedBuckets.blockchain
            /\ result.output.workload = ExpectedBuckets.workload

\* a failed run whose collector_name and last_collect_status were overwritten
C12_Witness ==
    /\ Ran(RegisteredNames) /\ Envelope
    /\ outcome.kind = "raise"
    /\ {"collector_name", "last_collect_status"} \subseteq ExtraKeys
    /\ result.output.metadata.collector_name = "custom"
    /\ result.output.metadata.last_collect_status = "overridden"
    /\ result.output.metadata.last_collect_errors # <<>>

Validated == \E i \in 1..Len(log) : log[i] = "validate_output"

\* C13: validate_output is called exactly when collect() returned and validate
\* is true; a partial or failed run is never validated and its envelope is
\* returned; a violation of the schema by a success envelope is raised to the
\* caller and no envelope is returned
C13_ValidationOnlyOnSuccess ==
    Ran(RegisteredNames) =>
        /\ Validated <=> (request.validate /\ outcome.kind = "return")
        /\ outcome.kind # "return" => Envelope /\ ~Validated
        /\ Validated /\ world.schema = "violation" =>
               result.kind = "raised" /\ result.exc = "ValidationError"
        /\ ~(Validated /\ world.schema = "violation") => Envelope

\* a success envelope that violates the schema, validation enabled
C13_Witness ==
    /\ Ran(RegisteredNames) /\ request.validate /\ outcome.kind = "return"
    /\ world.schema = "violation"
    /\ result.kind = "raised"

----------------------------------------------------------------------------
(* What two runs are checked against *)

\* an envelope without its two timestamps
WithoutTimestamps(output) ==
    [output EXCEPT !.metadata =
        [k \in DOMAIN output.metadata
               \ {"last_collect_attempt_at", "last_successful_collect_at"}
            |-> output.metadata[k]]]

----------------------------------------------------------------------------
(* What a success is checked against *)

\* C15: for every registered collector, a success envelope has a
\* client_version that is not "unknown", a blockchain_network_name that is not
\* "unknown" and a chain_id that is not -1
C15_SuccessNoSentinel ==
    Ran(RegisteredNames) /\ Envelope /\ StandardKeysKept
    /\ result.output.metadata.last_collect_status = "success" =>
        /\ result.output.workload.client_version # "unknown"
        /\ result.output.blockchain.blockchain_network_name # "unknown"
        /\ (request.collector_name \notin SubstrateNames
            /\ "chain_id" \in DOMAIN result.output.blockchain)
               => result.output.blockchain.chain_id # -1

\* what chain_getBlockHash(0) gave
genesis_hash == get_genesis_hash(world.rpc_url, world.rpc).val

\* C16: a run of substrate, ajuna or polkadot returns a success only if
\* chain_getBlockHash(0) gave a genesis hash, and every success has
\* blockchain.chain_id; a run in which that probe failed is partial
C16_SuccessNeedsGenesisHash ==
    Ran(SubstrateNames) =>
        /\ outcome.kind = "return" =>
            /\ Truthy(genesis_hash)
            /\ "chain_id" \in DOMAIN outcome.res.blockchain
        /\ (genesis_hash = None /\ outcome.kind # "raise") => outcome.kind = "partial"

\* system_version, system_chain and chain_getBlockHash(0) all gave a value
SubstrateAnswered ==
    /\ Truthy(get_system_version(world.rpc_url, world.rpc).val)
    /\ Truthy(get_system_chain(world.rpc_url, world.rpc).val)
    /\ Truthy(genesis_hash)

\* C17: for the collector substrate, when system_version, system_chain and
\* chain_getBlockHash(0) all give a value, the envelope has the status
\* success, the ecosystem "Polkadot" and the network name that system_chain
\* gave, whether system_name gives a value or an error
C17_GenericSubstrateSuccess ==
    Ran({"substrate"}) /\ StandardKeysKept /\ SubstrateAnswered =>
        /\ outcome.kind = "return"
        /\ Envelope =>
            /\ result.output.metadata.last_collect_status = "success"
            /\ result.output.blockchain.blockchain_ecosystem = "Polkadot"
            /\ result.output.blockchain.blockchain_network_name =
                   Val(get_system_chain(world.rpc_url, world.rpc).val)

----------------------------------------------------------------------------
(* What the ledger probe is checked against: the URLs and the reasons are  *)
(* written out here                                                        *)

ProbeCalled == pc = "done" /\ call.fn = "_probe_ledger"

ExpectedCandidates ==
    <<"http://127.0.0.1:8080", "http://127.0.0.1:8080/",
      "http://127.0.0.1:8080/v1", "http://127.0.0.1:8080/v1/">>

\* the response carries a chain id
CarriesChainId(resp) ==
    /\ resp.kind = "ok"
    /\ \/ "x-aptos-chain-id" \in DOMAIN resp.headers
       \/ (resp.body # None /\ "chain_id" \in DOMAIN Val(resp.body))

\* the one reason candidate u leaves when resp carries no chain id
ExpectedReason(u, resp) ==
    CASE resp.kind = "ok" -> "No ledger info at " \o u \o " (no chain id in headers/body)"
      [] resp.kind = "timeout" -> "GET timeout after 2.5s (url=" \o u \o ")"
      [] resp.kind = "httperror" -> "HTTP 404 for " \o u \o ": Not Found"

\* C18: _probe_ledger asks base, base/, base/v1, base/v1/ in that order, stops
\* at the first response that carries a chain id (header x-aptos-chain-id or
\* body field chain_id) and asks no later candidate; when no response carries
\* one it returns no body, no headers and one reason per candidate, in the
\* order of the candidates
C18_ProbeOrder ==
    ProbeCalled =>
        LET hits == {i \in 1..4 : CarriesChainId(call.http[i])}
            first == CHOOSE i \in hits : \A j \in hits : i <= j
        IN  IF hits # {}
            THEN /\ call.ret.requests = SubSeq(ExpectedCandidates, 1, first)
                 /\ call.ret.body = call.http[first].body
                 /\ call.ret.headers = call.http[first].headers
                 /\ call.ret.messages = <<>>
            ELSE /\ call.ret.requests = ExpectedCandidates
                 /\ call.ret.body = None
                 /\ call.ret.headers = EmptyDict
                 /\ call.ret.messages =
                        [i \in 1..4 |-> ExpectedReason(ExpectedCandidates[i], call.http[i])]

\* two candidates fail, the third carries a chain id in its body
C18_Witness ==
    /\ ProbeCalled
    /\ call.http[1].kind = "timeout"
    /\ call.http[2].kind = "ok" /\ ~CarriesChainId(call.http[2])
    /\ call.http[3].kind = "ok" /\ call.http[3].body # None
    /\ Len(call.ret.requests) = 3
    /\ call.ret.body = call.http[3].body

----------------------------------------------------------------------------
(* What the aptos collector is checked against *)

\* what the ledger probe of the run returned, and what was parsed from it
ledger == probe_ledger(world.rpc_url, world.http)
ledger_chain_id == parse_chain_id(ledger.body, ledger.headers)
ledger_version == parse_client_version(ledger.body, ledger.headers)

\* C19: the aptos collector returns a success exactly when the parsed chain id
\* is 1 (network "mainnet") or 2 (network "testnet"), chain_id being that
\* integer; it is partial with the network name "unknown" when there is a
\* client version or a chain id other than 1 and 2; it fails when there is
\* neither a chain id nor a client version
C19_AptosClassification ==
    Ran({"aptos"}) =>
        LET known == ledger_chain_id \in {Some(1), Some(2)}
            some == ledger_chain_id # None \/ Truthy(ledger_version)
        IN  /\ outcome.kind = "return" <=> known
            /\ outcome.kind = "return" =>
                /\ outcome.res.blockchain.chain_id = Val(ledger_chain_id)
                /\ outcome.res.blockchain.blockchain_network_name =
                       IF Val(ledger_chain_id) = 1 THEN "mainnet" ELSE "testnet"
            /\ outcome.kind = "partial" <=> ~known /\ some
            /\ outcome.kind = "partial" =>
                /\ outcome.partial # None
                /\ Val(outcome.partial).blockchain.blockchain_network_name = "unknown"
            /\ CollectFailed <=> ~some
            /\ outcome.kind \in {"return", "partial", "raise"}

\* a client version and a chain id header that is no number
C19_Witness ==
    /\ Ran({"aptos"})
    /\ ledger_chain_id = None /\ Truthy(ledger_version)
    /\ outcome.kind = "partial"

----------------------------------------------------------------------------
(* What the registry is checked against *)

Loaded == pc = "done" /\ call.fn = "load_collectors"

\* the places of the classes of the package, and the order of registration
Places == {<<i, j>> : i \in 1..Len(call.modules), j \in 1..4}
Registered ==
    {p \in Places : /\ p[2] <= Len(call.modules[p[1]])
                    /\ call.modules[p[1]][p[2]].cls # "BaseCollector"}
ClassAt(p) == call.modules[p[1]][p[2]]
Later(p, q) == q[1] > p[1] \/ (q[1] = p[1] /\ q[2] > p[2])

\* C20: every key of the mapping load_collectors returns is the NAME of the
\* class it maps to; there is one class for each NAME, the one registered
\* last when several have it; the base class is not registered; the package
\* of the repository gives reth, op-reth, bera-reth, substrate, ajuna and aptos
C20_Registry ==
    Loaded =>
        /\ \A k \in DOMAIN call.ret :
               /\ call.ret[k].NAME = k
               /\ call.ret[k].cls # "BaseCollector"
        /\ DOMAIN call.ret = {ClassAt(p).NAME : p \in Registered}
        /\ \A p \in Registered :
               (\A q \in Registered : Later(p, q) => ClassAt(q).NAME # ClassAt(p).NAME)
                   => call.ret[ClassAt(p).NAME] = ClassAt(p)
        /\ call.modules = Modules =>
               {"reth", "op-reth", "bera-reth", "substrate", "ajuna", "aptos"}
                   \subseteq DOMAIN call.ret

\* two classes named reth in two modules that import the base class
C20_Witness ==
    /\ Loaded
    /\ call.modules = << <<BaseCollector, RethCollector>>,
                         <<BaseCollector, OtherRethCollector>> >>
    /\ DOMAIN call.ret = {"reth"}
    /\ call.ret["reth"].cls = "OtherRethCollector"

----------------------------------------------------------------------------
(* What run_collector and collect_all of dwellir_harvester are checked     *)
(* against                                                                 *)

Collected == pc = "done" /\ call.fn = "collect_all"

\* the i-th name is not asked for again later in the list
LastOf(i) == \A j \in (i + 1)..Len(call.collector_names) :
                 call.collector_names[j] # call.collector_names[i]

\* collect_all for the i-th name alone, the collector behaving as it did and
\* reading the clock it read
Alone(i) ==
    harvester_collect_all(<<call.collector_names[i]>>, FALSE,
                          [call.world EXCEPT !.clock = <<call.world.clock[i]>>]).value

\* C21: collect_all without validation returns for every list of names and
\* whatever the collectors do; collectors_used is the list asked for; every
\* name but host has its entry under collectors; the entry of a collector
\* (the host data for host) is the one it has when it is run alone
C21_Independent ==
    (Collected /\ ~call.validate) =>
        /\ call.ret.kind = "return"
        /\ call.ret.value.harvester.collectors_used = call.collector_names
        /\ \A i \in 1..Len(call.collector_names) :
               /\ call.collector_names[i] # "host" =>
                      call.collector_names[i] \in DOMAIN call.ret.value.collectors
               /\ (LastOf(i) /\ call.collector_names[i] # "host") =>
                      call.ret.value.collectors[call.collector_names[i]]
                          = Alone(i).collectors[call.collector_names[i]]
               /\ (LastOf(i) /\ call.collector_names[i] = "host") =>
                      /\ call.ret.value.host = Alone(i).host
                      /\ "host" \notin DOMAIN call.ret.value.collectors

\* an unknown name and a class that cannot be created before a collector
\* that returns its data
C21_Witness ==
    /\ Collected /\ ~call.validate
    /\ call.collector_names = <<"nope", "op-reth", "dummychain">>
    /\ call.world.does["dummychain"] = "raw"
    /\ "message" \in DOMAIN call.ret.value.collectors["nope"]
    /\ call.ret.value.collectors["op-reth"].meta.status = "failed"
    /\ call.ret.value.collectors["dummychain"].data = harvester_data("dummychain")
    /\ "status" \notin DOMAIN call.ret.value.collectors["dummychain"].meta

HarvesterRan == pc = "done" /\ call.fn = "harvester.run_collector"

\* C22: when collect() raises CollectorPartialError(messages, partial),
\* run_collector returns a record with meta.status "partial", meta.errors the
\* messages and data the data of the partial payload
C22_PartialReported ==
    (/\ HarvesterRan
     /\ call.collector_name \in DOMAIN call.does
     /\ call.does[call.collector_name] = "partial") =>
        /\ call.ret.kind = "return"
        /\ call.ret.value.meta.status = "partial"
        /\ call.ret.value.meta.errors = harvester_messages
        /\ call.ret.value.data = harvester_data(call.collector_name)

----------------------------------------------------------------------------
(* What the JSON-RPC probes are checked against *)

Probed == pc = "done" /\ call.fn \in {"_jsonrpc", "_get_net_version", "_get_chain_id"}

\* C23: a JSON-RPC probe returns a pair of which exactly one of value and
\* error is not null, whatever the response
C23_ExactlyOne ==
    Probed => ((call.ret.val = None) # (call.ret.err = None))

----------------------------------------------------------------------------
(* What the daemon of dwellir_harvester is checked against *)

\* a thread is inside the with block of run_collectors
Writing(th) == threads[th].pc \in {"replace", "open", "dump", "unlock"}

\* the handler is inside the with block of _handle_metadata
Reading == threads.main.pc \in {"h_read", "h_unlock"}

----------------------------------------------------------------------------
(* What the daemon of blockchain_collector is checked against *)

\* the thread is executing _run_once
InRunOnce(th) == threads[th].pc \in {"run", "wait", "open", "dump", "status"}

\* the thread, or the subprocess it waits for, has the snapshot file open
FileOpenBy(th) ==
    \/ threads[th].pc = "dump"
    \/ threads[th].pc = "wait" /\ threads[th].sub = "opened"

\* C25: at most one execution of _run_once is in progress at any time, and
\* no two of them have the snapshot file open for writing together
C25_RunsSerialized ==
    /\ ~(InRunOnce("main") /\ InRunOnce("worker"))
    /\ ~(FileOpenBy("main") /\ FileOpenBy("worker"))

\* C26: the body of a 200 response to GET /metadata is a complete snapshot,
\* never a file that a run has opened and not yet written
C26_CompleteSnapshot ==
    (threads.main.response.code = 200 /\ threads.main.response.body.state # "absent") =>
        threads.main.response.body.state = "written"

\* the thread is back from a _run_once whose subprocess timed out
TimedOut(th) ==
    /\ threads[th].timed_out
    /\ threads[th].caller # "none"
    /\ threads[th].pc = after_run(threads[th].caller)

\* C27: a run whose subprocess exceeds the timeout has written one snapshot,
\* with last_collect_status "failed", empty blockchain and workload and the
\* timeout message in last_collect_errors, returns ok = false with that
\* message, and has started the collector once
C27_TimeoutFailed ==
    \A th \in {"main", "worker"} :
        TimedOut(th) =>
            /\ Len(threads[th].wrote) = 1
            /\ threads[th].wrote[1].metadata.last_collect_status = "failed"
            /\ threads[th].wrote[1].metadata.last_collect_errors = <<"timeout after 60s">>
            /\ threads[th].wrote[1].metadata.collector_name = "null"
            /\ threads[th].wrote[1].blockchain = EmptyDict
            /\ threads[th].wrote[1].workload = EmptyDict
            /\ ~threads[th].ret.ok
            /\ threads[th].ret.error = "timeout after 60s"
            /\ threads[th].spawned = 1

\* a scheduled run killed while the CLI had the file open, the file now
\* holding the snapshot of the timeout
C27_Witness ==
    /\ TimedOut("worker")
    /\ threads.worker.sub = "killed"
    /\ threads.main.pc = "serve"
    /\ shared.file.state = "written"
    /\ shared.file.content.metadata.last_collect_errors = <<"timeout after 60s">>
    /\ shared.runs = 2

----------------------------------------------------------------------------
(* What the errors of a failed EVM run are checked against *)

\* the messages of the probes that failed, in the order of the probes
ProbeMessages ==
    (IF request.collector_name = "reth" THEN RethCollector_cli(world.cli).messages
     ELSE reth_cli(world.cli).messages)
    \o Unavailable(get_client_version_from_rpc(world.rpc_url, world.rpc),
                   "RPC web3_clientVersion unavailable")
    \o Unavailable(get_chain_id(world.rpc_url, world.rpc), "RPC eth_chainId unavailable")
    \o Unavailable(get_net_version(world.rpc_url, world.rpc), "RPC net_version unavailable")

\* C28: when the run of an EVM collector ends failed, last_collect_errors
\* carries the messages of the failed probes in probe order: as the list
\* itself, or joined with "; " in one string or in the repr of the exception
C28_FailedCarriesMessages ==
    (Ran(EvmNames) /\ Envelope /\ outcome.kind = "raise") =>
        \/ result.output.metadata.last_collect_errors = ProbeMessages
        \/ result.output.metadata.last_collect_errors = <<JoinWith("; ", ProbeMessages)>>
        \/ result.output.metadata.last_collect_errors
               = <<"CollectorFailedError('" \o JoinWith("; ", ProbeMessages) \o "')">>

----------------------------------------------------------------------------
(* What the probes of a step-wise collect() are checked against *)

Waiting == pc = "collect" /\ threads.at \in RpcMethods \cup {"cli"}

\* C29: every probe an EVM collector waits in is bounded by an explicit
\* timeout: while collect() waits, the probe has a timeout and has waited no
\* longer than it
C29_ProbesBounded ==
    Waiting =>
        /\ probe_timeout(threads.at) # None
        /\ threads.waited <= Val(probe_timeout(threads.at))

\* C29, as the termination it is to give: every run of collect() reaches its
\* classification and returns or raises
C29_Terminates == <>(pc = "collect" => threads.at = "done")

----------------------------------------------------------------------------
(* What the aptos collector is checked against when no candidate carries a *)
(* chain id                                                                *)

NoChainIdAnywhere == \A i \in 1..4 : ~CarriesChainId(world.http[i])

\* a candidate answered and exposed a client version, in a header or in its body
ExposesVersion(resp) ==
    /\ resp.kind = "ok"
    /\ \/ \E hk \in {"x-aptos-node-version", "x-aptos-git-hash"} :
              hk \in DOMAIN resp.headers /\ resp.headers[hk] # ""
       \/ /\ resp.body # None
          /\ \E bk \in {"node_version", "git_hash"} :
                 bk \in DOMAIN Val(resp.body) /\ Val(resp.body)[bk] # ""

\* C30: when no candidate of _probe_ledger carries a chain id key, the probe
\* returns no body and no headers, whatever the candidates exposed, and the
\* aptos collector fails; so a partial run has a candidate whose response
\* carries a chain id key
C30_NoChainIdFails ==
    Ran({"aptos"}) =>
        /\ NoChainIdAnywhere =>
               /\ ledger.body = None
               /\ ledger.headers = EmptyDict
               /\ ledger_version = None
               /\ CollectFailed
        /\ outcome.kind = "partial" => \E i \in 1..4 : CarriesChainId(world.http[i])

\* a candidate answered with a client version, none with a chain id: failed
C30_Witness ==
    /\ Ran({"aptos"})
    /\ NoChainIdAnywhere
    /\ \E i \in 1..4 : ExposesVersion(world.http[i])
    /\ CollectFailed

====
